---- MODULE Spec2Model ----
(***************************************************************************)
(* Verification model of the Knowledge Ingestion & Retrieval core of       *)
(* elysium-agents: the vector-store indexer (delete-then-upsert), the chat *)
(* orchestrator with its detached persistence step, and delete-agent.      *)
(*                                                                         *)
(* Strings of the program are sequences of one-character strings.  Python  *)
(* offsets are kept 0-based: Slice(s, a, b) is s[a:b].                     *)
(***************************************************************************)
EXTENDS Integers, Sequences, FiniteSets, TLC

(***************************************************************************)
(* Bounds of the model.                                                    *)
(***************************************************************************)
MaxRuns == 3

(***************************************************************************)
(* Text helpers (str.strip, re.finditer, re.search as the chunker uses     *)
(* them).                                                                  *)
(***************************************************************************)
Max2(a, b) == IF a >= b THEN a ELSE b

Min2(a, b) == IF a <= b THEN a ELSE b

\* s[a:b] for 0 <= a, with Python's clamping of b to len(s)
Slice(s, a, b) == SubSeq(s, a + 1, Min2(b, Len(s)))

\* \s of the re module, on the characters the texts use
IsSpace(c) == c \in {" ", "\n", "\t"}

IsTerminator(c) == c \in {".", "!", "?"}

RECURSIVE FirstNonSpace(_, _)
\* index (1-based) of the first non-whitespace character at or after i, or Len(s)+1
FirstNonSpace(s, i) ==
    IF i > Len(s) \/ ~IsSpace(s[i]) THEN i ELSE FirstNonSpace(s, i + 1)

RECURSIVE LastNonSpace(_, _)
\* index (1-based) of the last non-whitespace character at or before i, or 0
LastNonSpace(s, i) ==
    IF i < 1 \/ ~IsSpace(s[i]) THEN i ELSE LastNonSpace(s, i - 1)

\* str.strip()
Strip(s) ==
    LET a == FirstNonSpace(s, 1)
        b == LastNonSpace(s, Len(s))
    IN  IF a > b THEN << >> ELSE SubSeq(s, a, b)

RECURSIVE SpaceRunEnd(_, _)
\* 1-based index of the last character of the maximal whitespace run that
\* starts at index i (i - 1 when w[i] is no whitespace)
SpaceRunEnd(w, i) ==
    IF i > Len(w) \/ ~IsSpace(w[i]) THEN i - 1 ELSE SpaceRunEnd(w, i + 1)

\* list(re.finditer(r'[.!?]\s+', w))[-1].end(), or -1 when there is no match.
\* A terminator is never whitespace, so every terminator followed by
\* whitespace starts a match and the greedy \s+ runs to the end of the run.
LastSentenceEnd(w) ==
    LET starts == {i \in 1..(Len(w) - 1) : IsTerminator(w[i]) /\ IsSpace(w[i + 1])}
    IN  IF starts = {} THEN -1
        ELSE LET i == CHOOSE x \in starts : \A y \in starts : y <= x
             IN  SpaceRunEnd(w, i + 1)

\* re.search(r'\n\s*\n', w).end(), or -1: the leftmost newline whose
\* following whitespace run holds another newline; greedy \s* backtracks to
\* the last newline of that run.
ParagraphEnd(w) ==
    LET NlAfter(i) == {j \in (i + 1)..SpaceRunEnd(w, i + 1) : w[j] = "\n"}
        starts == {i \in 1..Len(w) : w[i] = "\n" /\ NlAfter(i) # {}}
    IN  IF starts = {} THEN -1
        ELSE LET i == CHOOSE x \in starts : \A y \in starts : x <= y
                 js == NlAfter(i)
             IN  CHOOSE x \in js : \A y \in js : y <= x

\* re.search(r'\n', w).end(), or -1
LineEnd(w) ==
    LET nls == {i \in 1..Len(w) : w[i] = "\n"}
    IN  IF nls = {} THEN -1 ELSE CHOOSE x \in nls : \A y \in nls : x <= y

\* the end offset the chunker picks for the window [start, start + chunk_size)
ChunkEnd(text, start, chunk_size) ==
    LET end == start + chunk_size
        search_start == Max2(start, end - (chunk_size \div 5))
        w == Slice(text, search_start, end)
        s == LastSentenceEnd(w)
        p == ParagraphEnd(w)
        l == LineEnd(w)
    IN  IF s # -1 THEN search_start + s
        ELSE IF p # -1 THEN search_start + p
        ELSE IF l # -1 THEN search_start + l
        ELSE end

RECURSIVE ChunkLoop(_, _, _, _, _)
\* the while loop of chunk_text_content
ChunkLoop(text, start, chunk_size, chunk_overlap, chunks) ==
    IF start >= Len(text) THEN chunks
    ELSE IF start + chunk_size >= Len(text)
         THEN LET chunk == Strip(Slice(text, start, Len(text)))
              IN  IF chunk # << >> THEN Append(chunks, chunk) ELSE chunks
         ELSE LET end == ChunkEnd(text, start, chunk_size)
                  chunk == Strip(Slice(text, start, end))
                  chunks2 == IF chunk # << >> THEN Append(chunks, chunk) ELSE chunks
                  start2 == Max2(start + 1, end - chunk_overlap)
              IN  ChunkLoop(text, start2, chunk_size, chunk_overlap, chunks2)

chunk_text_content(text_content, chunk_size, chunk_overlap) ==
    LET text == Strip(text_content)
        overlap == IF chunk_overlap >= chunk_size THEN chunk_size \div 10
                   ELSE chunk_overlap
    IN  IF text_content = << >> THEN << >>
        ELSE IF Len(text) = 0 THEN << >>
        ELSE IF Len(text) <= chunk_size THEN << text >>
        ELSE ChunkLoop(text, 0, chunk_size, overlap, << >>)

DefaultChunkSize == 1500

DefaultChunkOverlap == 200

(***************************************************************************)
(* Inputs of the indexer.                                                  *)
(***************************************************************************)
Agents == {"a1", "a2"}

Sources == {"s1", "s2"}

KnowledgeTypes == {"url", "file", "custom_text", "custom_qa"}

\* the texts handed to the indexer, by name
Contents == {"empty", "blank", "short", "long"}

\* "empty" is the empty string, "blank" is whitespace only, "short" fits in
\* one chunk, "long" needs three windows of the default chunk size
TextOf ==
    [c \in Contents |->
        CASE c = "empty" -> << >>
          [] c = "blank" -> <<" ", "\n", " ">>
          [] c = "short" -> <<"O", "k", ".">>
          [] c = "long" -> [i \in 1..3200 |->
                              IF i % 700 = 0 THEN "\n"
                              ELSE IF i % 90 = 0 THEN " "
                              ELSE IF i % 90 = 89 THEN "." ELSE "x"]]

\* chunk_text_content(text_content) with its default arguments, per text
ChunksOfText ==
    [c \in Contents |->
        chunk_text_content(TextOf[c], DefaultChunkSize, DefaultChunkOverlap)]

\* f"Question: {question} Answer: {answer}"
QAText(question, answer) ==
    <<"Q", "u", "e", "s", "t", "i", "o", "n", ":", " ">> \o question
        \o <<" ", "A", "n", "s", "w", "e", "r", ":", " ">> \o answer

\* the question of every Q&A pair of the model; its answer is the item's text
Question == <<"W", "h", "y", "?">>

\* the truthiness filter at the head of each index_*_in_knowledge_base
IsValidItem(ktype, item) ==
    IF ktype = "custom_qa"
    THEN item.source # "" /\ Question # << >> /\ TextOf[item.content] # << >>
    ELSE item.source # "" /\ TextOf[item.content] # << >>

\* the chunk texts the indexer stores for an item: the chunker's output, or
\* the single joined text of a Q&A pair (no chunking)
ChunkTexts(ktype, content) ==
    IF ktype = "custom_qa"
    THEN << QAText(Question, TextOf[content]) >>
    ELSE ChunksOfText[content]

\* Filter(must=[FieldCondition(key, MatchValue(value)), ...]) as a set of
\* <<key, value>> conditions
\* a delete filter copied from the file indexer into the URL indexer
DeleteFilterCopied(ktype, agent_id, knowledge_source) ==
    {<<"agent_id", agent_id>>, <<"knowledge_source", knowledge_source>>,
     <<"knowledge_type", IF ktype = "url" THEN "file" ELSE ktype>>}

DeleteFilter(ktype, agent_id, knowledge_source) ==
    IF ktype = "url"
    THEN {<<"agent_id", agent_id>>, <<"knowledge_source", knowledge_source>>}
    ELSE {<<"agent_id", agent_id>>, <<"knowledge_source", knowledge_source>>,
          <<"knowledge_type", ktype>>}

\* a point matches a filter when its payload meets every must-condition
Matches(filter, p) == \A c \in filter : p[c[1]] = c[2]

\* a delete whose result is dropped
DeleteNothing(points, filter) == points

\* client.delete(collection, points_selector=filter)
DeleteByFilter(points, filter) == {p \in points : ~Matches(filter, p)}

\* uuid4() for URL chunks, uuid5(NAMESPACE_DNS, "agent:type:source:index")
\* for files, custom texts and Q&A pairs
PointId(ktype, agent_id, knowledge_source, text_index, fresh) ==
    IF ktype = "url"
    THEN <<"uuid4", fresh>>
    ELSE <<"uuid5", agent_id, ktype, knowledge_source, text_index>>

SeqToSet(s) == {s[i] : i \in 1..Len(s)}

\* client.upsert(collection, points): a point replaces the stored point of
\* the same id, otherwise it is inserted
UpsertPoints(points, new) ==
    {p \in points : \A q \in SeqToSet(new) : q.id # p.id} \cup SeqToSet(new)

(***************************************************************************)
(* State.                                                                  *)
(***************************************************************************)
VARIABLES
    kb,           \* points of collection agent_knowledge_base
    run,          \* per indexing task: the locals of index_*_in_knowledge_base
    uuidNext,     \* the next value uuid4() returns to an indexing run
    started,      \* indexing runs started so far (also the clock of created_at)
    prevRun,      \* the run that returned last: its inputs and the counts it left
    lastIndexed,  \* per <<agent, type, source>>: content and time of its last run
    crashedRun,   \* the inputs of the run that crashed last, if any
    activeType,   \* the knowledge type the runs of this behaviour index
    wc,           \* points of collection agent_web_catalog
    agentRows,    \* collection atlas_agents
    sourceRows,   \* atlas_agent_urls, atlas_agent_files, atlas_custom_texts, atlas_qa_pairs
    del,          \* the locals of remove_agent_by_id
    sessions,     \* collection atlas_chat_sessions
    chatMessages, \* collection atlas_chat_mesages
    turn,         \* per chat turn: the locals of chat_with_agent_v1
    persist,      \* per chat turn: its detached create_and_store_chat_messages task
    rotate,       \* the locals of rotate_conversation_id
    frames,       \* per chat turn: the atlas_response_chunk payloads its socket received
    connected,    \* per chat turn: whether the transport of its socket is up
    now,          \* the clock that stamps chat messages
    job,          \* the locals of a background ingestion task
    agentStatus,  \* per agent: the agent_status of its atlas_agents row
    fetch,        \* per fetch job: the locals of fetch_multiple_urls_content
    pager,        \* a client that follows the cursors of a paginated listing
    query,        \* the locals of search_and_merge_agent_knowledge
    prompt,       \* the message list a chat turn assembled for the LLM
    chunker,      \* a call of chunk_text_content: its arguments and its result
    plan          \* the user plans and the chat requests that pass the quota check

indexVars == <<run, uuidNext, started, prevRun, lastIndexed, crashedRun, activeType>>

deleteVars == <<wc, agentRows, sourceRows, del>>

chatVars == <<sessions, chatMessages, turn, persist, rotate, frames, connected, now>>

ingestVars == <<job, agentStatus, fetch>>

readVars == <<pager, query>>

requestVars == <<prompt, chunker, plan>>

vars == <<kb, indexVars, deleteVars, chatVars, ingestVars, readVars, requestVars>>

Runners == {1, 2}

None == [kind |-> "none"]

IdleRun == [pc |-> "idle"]

\* the input lists of a run: items of pairwise distinct knowledge sources
Batches ==
    {<<[source |-> "s1", content |-> c]>> : c \in Contents}
    \cup {<<[source |-> "s1", content |-> c], [source |-> "s2", content |-> "short"]>> :
            c \in Contents \ {"empty"}}

RECURSIVE SelectValid(_, _)
\* valid_results / valid_files / valid_texts / valid_pairs, in input order
SelectValid(ktype, batch) ==
    IF batch = << >> THEN << >>
    ELSE IF IsValidItem(ktype, Head(batch))
         THEN <<Head(batch)>> \o SelectValid(ktype, Tail(batch))
         ELSE SelectValid(ktype, Tail(batch))

RECURSIVE CollectFilters(_, _, _)
\* delete_filters: one per valid item that produced at least one chunk
CollectFilters(ktype, agent_id, valid) ==
    IF valid = << >> THEN << >>
    ELSE LET item == Head(valid)
             rest == CollectFilters(ktype, agent_id, Tail(valid))
         IN  IF ChunkTexts(ktype, item.content) = << >> THEN rest
             ELSE <<[source |-> item.source,
                     filter |-> DeleteFilter(ktype, agent_id, item.source)]>> \o rest

RECURSIVE CollectChunks(_, _, _)
\* all_chunks (all_texts for Q&A): every chunk of every valid item, in order;
\* the chunk text is kept by reference as (content, text_index)
CollectChunks(ktype, agent_id, valid) ==
    IF valid = << >> THEN << >>
    ELSE LET item == Head(valid)
             n == Len(ChunkTexts(ktype, item.content))
         IN  [i \in 1..n |-> [agent_id |-> agent_id,
                              knowledge_source |-> item.source,
                              text_index |-> i - 1,
                              content |-> item.content]]
             \o CollectChunks(ktype, agent_id, Tail(valid))

\* the PointStruct built for chunk number k of all_chunks
MakePoint(ktype, chunk, fresh, created_at) ==
    [id |-> PointId(ktype, chunk.agent_id, chunk.knowledge_source,
                    chunk.text_index, fresh),
     agent_id |-> chunk.agent_id,
     knowledge_source |-> chunk.knowledge_source,
     knowledge_type |-> ktype,
     text_index |-> chunk.text_index,
     content |-> chunk.content,
     created_at |-> created_at]

\* the points of one knowledge source of one type
PointsOf(points, agent_id, ktype, source) ==
    {p \in points : p.agent_id = agent_id /\ p.knowledge_type = ktype
                    /\ p.knowledge_source = source}

BatchSources(batch) == {batch[i].source : i \in 1..Len(batch)}

ContentIn(batch, source) ==
    batch[CHOOSE i \in 1..Len(batch) : batch[i].source = source].content

(***************************************************************************)
(* index_links_in_knowledge_base, index_files_in_knowledge_base,           *)
(* index_custom_texts_in_knowledge_base, index_qa_pairs_in_knowledge_base: *)
(* the four functions share one control flow and differ in the validity    *)
(* test, the chunking, the delete filter and the point id.  Every await is *)
(* a step: the embeddings call, each filter-delete, the upsert.            *)
(***************************************************************************)
\* entry: filter the valid items, chunk them, prepare the delete filters
StartIndex(r, agent_id, ktype, batch) ==
    /\ run[r].pc = "idle"
    /\ started < MaxRuns
    /\ LET valid == SelectValid(ktype, batch)
           chunks == CollectChunks(ktype, agent_id, valid)
           base == [agent_id |-> agent_id, ktype |-> ktype, batch |-> batch,
                    valid |-> valid, time |-> started + 1,
                    retry_of |-> IF /\ crashedRun.kind = "crash"
                                    /\ crashedRun.agent_id = agent_id
                                    /\ crashedRun.ktype = ktype
                                    /\ crashedRun.batch = batch
                                 THEN crashedRun.at ELSE "none",
                    delete_filters |-> CollectFilters(ktype, agent_id, valid),
                    all_chunks |-> chunks, all_points |-> << >>, di |-> 1,
                    errors |-> << >>,
                    total_processed |-> Len(valid), total_chunks |-> Len(chunks)]
       IN  /\ run' = [run EXCEPT ![r] =
                        [pc |-> IF chunks = << >> THEN "done" ELSE "embed"] @@ base]
           /\ crashedRun' = IF base.retry_of # "none" THEN None ELSE crashedRun
    /\ started' = started + 1
    /\ UNCHANGED <<kb, uuidNext, prevRun, lastIndexed, activeType>>
    /\ UNCHANGED <<deleteVars, chatVars, ingestVars, readVars, requestVars>>

\* await get_embeddings(...), then one PointStruct per chunk; on an
\* exception the error is recorded and all_points stays empty
Embed(r, ok) ==
    /\ run[r].pc = "embed"
    /\ LET me == run[r]
           n == Len(me.all_chunks)
           pts == [k \in 1..n |->
                     MakePoint(me.ktype, me.all_chunks[k], uuidNext + k - 1, me.time)]
       IN  IF ok
           THEN /\ run' = [run EXCEPT ![r].all_points = pts, ![r].pc = "delete"]
                /\ uuidNext' = IF me.ktype = "url" THEN uuidNext + n ELSE uuidNext
           ELSE /\ run' = [run EXCEPT ![r].errors = Append(@, "embeddings"),
                                      ![r].pc = "delete"]
                /\ UNCHANGED uuidNext
    /\ UNCHANGED <<kb, started, prevRun, lastIndexed, crashedRun, activeType>>
    /\ UNCHANGED <<deleteVars, chatVars, ingestVars, readVars, requestVars>>

\* where the run goes once delete filter number di has been handled
AfterDelete(me) ==
    IF me.di < Len(me.delete_filters) THEN "delete"
    ELSE IF me.all_points # << >> THEN "upsert" ELSE "done"

\* await client.delete(...) for the next delete filter; an exception is
\* recorded and the loop goes on
DeleteOld(r, ok) ==
    /\ run[r].pc = "delete"
    /\ LET me == run[r]
           f == me.delete_filters[me.di].filter
       IN  /\ kb' = IF ok THEN DeleteByFilter(kb, f) ELSE kb
           /\ run' = [run EXCEPT ![r].di = @ + 1,
                                 ![r].pc = AfterDelete(me),
                                 ![r].errors = IF ok THEN @ ELSE Append(@, "delete")]
    /\ UNCHANGED <<uuidNext, started, prevRun, lastIndexed, crashedRun, activeType>>
    /\ UNCHANGED <<deleteVars, chatVars, ingestVars, readVars, requestVars>>

\* await client.upsert(collection, points=all_points)
UpsertAll(r, ok) ==
    /\ run[r].pc = "upsert"
    /\ kb' = IF ok THEN UpsertPoints(kb, run[r].all_points) ELSE kb
    /\ run' = [run EXCEPT ![r].pc = "done",
                          ![r].errors = IF ok THEN @ ELSE Append(@, "upsert")]
    /\ UNCHANGED <<uuidNext, started, prevRun, lastIndexed, crashedRun, activeType>>
    /\ UNCHANGED <<deleteVars, chatVars, ingestVars, readVars, requestVars>>

\* the counts a returned run leaves behind, per source of its batch
CountsLeft(points, agent_id, ktype) ==
    [s \in Sources |-> Cardinality(PointsOf(points, agent_id, ktype, s))]

\* return {total_processed, total_chunks, errors}
ReturnIndex(r) ==
    /\ run[r].pc = "done"
    /\ LET me == run[r]
       IN  /\ prevRun' = [kind |-> "run", agent_id |-> me.agent_id,
                          ktype |-> me.ktype, batch |-> me.batch,
                          counts |-> CountsLeft(kb, me.agent_id, me.ktype)]
           /\ lastIndexed' =
                [k \in DOMAIN lastIndexed |->
                    IF /\ k[1] = me.agent_id /\ k[2] = me.ktype
                       /\ \E i \in 1..Len(me.valid) : me.valid[i].source = k[3]
                    THEN [kind |-> "indexed", content |-> ContentIn(me.valid, k[3]),
                          time |-> me.time]
                    ELSE lastIndexed[k]]
    /\ run' = [run EXCEPT ![r] = IdleRun]
    /\ UNCHANGED <<kb, uuidNext, started, crashedRun, activeType>>
    /\ UNCHANGED <<deleteVars, chatVars, ingestVars, readVars, requestVars>>

\* the process dies while the run is suspended at an await or about to return
CrashIndex(r) ==
    /\ run[r].pc \in {"embed", "delete", "upsert", "done"}
    /\ crashedRun' = [kind |-> "crash", agent_id |-> run[r].agent_id,
                      ktype |-> run[r].ktype, batch |-> run[r].batch,
                      at |-> run[r].pc]
    /\ prevRun' = None
    /\ run' = [run EXCEPT ![r] = IdleRun]
    /\ UNCHANGED <<kb, uuidNext, started, lastIndexed, activeType>>
    /\ UNCHANGED <<deleteVars, chatVars, ingestVars, readVars, requestVars>>

(***************************************************************************)
(* Chat sessions and messages (atlas_chat_session_services.py) and the     *)
(* chat turn (chat_with_agent_v1).  Object ids and uuid4 values are named  *)
(* by who creates them, so that two of them are equal only when they are   *)
(* the same value.  The absent conversation_id is the empty tuple and the  *)
(* absent sid the empty string.                                            *)
(***************************************************************************)
Turns == {1, 2}

SidOf == [t \in Turns |-> IF t = 1 THEN "sid1" ELSE "sid2"]

\* the replies of the model: each a list of the chunks its stream yields
Replies == { << <<"O", "k">> >>, << <<"H", "i">>, <<"!">> >> }

RECURSIVE Concat(_)
Concat(chunks) ==
    IF chunks = << >> THEN << >> ELSE Head(chunks) \o Concat(Tail(chunks))

ChatHistoryLimit == 10

IdleTurn == [pc |-> "idle"]

NoPersist == [pc |-> "none"]

IdleRotate == [pc |-> "idle", before |-> {}]

\* collection.find({"chat_session_id": ..., "agent_id": ...})
SessionRowsOf(rows, agent_id, chat_session_id) ==
    {r \in rows : r.agent_id = agent_id /\ r.chat_session_id = chat_session_id}

\* the document get_chat_session_data inserts when it finds none
NewSessionRow(who, t, agent_id, chat_session_id) ==
    [_id |-> <<"oid", who, t>>, agent_id |-> agent_id,
     chat_session_id |-> chat_session_id,
     conversation_id |-> <<"conv", who, t>>]

RECURSIVE SortByCreatedAt(_)
\* .sort("created_at", 1)
SortByCreatedAt(msgs) ==
    IF msgs = {} THEN << >>
    ELSE LET m == CHOOSE x \in msgs : \A y \in msgs : x.created_at <= y.created_at
         IN  <<m>> \o SortByCreatedAt(msgs \ {m})

\* the query, the ascending sort and the limit of the history read
get_chat_messages_for_session(msgs, agent_id, chat_session_id, limit, conversation_id) ==
    LET found == {m \in msgs : /\ m.agent_id = agent_id
                               /\ m.chat_session_id = chat_session_id
                               /\ (conversation_id # << >>
                                     => m.conversation_id = conversation_id)}
        sorted == SortByCreatedAt(found)
    IN  SubSeq(sorted, 1, Min2(limit, Len(sorted)))

\* the parameters emit_atlas_response_chunk declares
EmitParameters == {"chunk", "done", "sid", "room", "skip_sid"}

\* the arguments of the call that sends the final "done" signal
TerminalCallArguments ==
    {"chunk", "done", "sid", "full_response", "message_id", "created_at", "role"}

\* emit_atlas_response_chunk(chunk, done, sid): the payload sent is
\* {"chunk", "done"}; without a target nothing is sent, and an emit that
\* fails is logged and swallowed
emit_atlas_response_chunk(received, up, chunk, done, sid) ==
    IF sid = "" \/ ~up THEN received
    ELSE Append(received, [chunk |-> chunk, done |-> done])

\* the document _build_message_document builds from a payload
MessageDocument(agent_id, chat_session_id, conversation_id, payload) ==
    [chat_session_id |-> chat_session_id, agent_id |-> agent_id,
     conversation_id |-> conversation_id, message_id |-> payload.message_id,
     role |-> payload.role, content |-> payload.content,
     created_at |-> payload.created_at]

\* the task chat_with_agent_v1 creates to store the two messages of a turn
PersistTask(me, response_text) ==
    [pc |-> "find", agent_id |-> me.agent_id, chat_session_id |-> me.chat_session_id,
     conversation_id |-> << >>,
     user_payload |-> [message_id |-> me.user_message_id, role |-> "user",
                       content |-> me.message, created_at |-> me.user_message_created_at],
     agent_payload |-> [message_id |-> me.agent_message_id, role |-> "agent",
                        content |-> response_text,
                        created_at |-> me.agent_message_created_at]]

\* the turn after the outer except clause has returned the error dict
Failed(me, upstream) ==
    [me EXCEPT !.pc = "returned", !.result = "error",
               !.upstream_failed = @ \/ upstream]

UserMessage == <<"H", "i", "?">>

\* entry of chat_with_agent_v1: the ids and the user timestamp, which is
\* additional_params["created_at"] when the request carries one (0: it does
\* not) and the server clock otherwise
StartTurn(t, agent_id, chat_session_id, sid, created_at) ==
    /\ turn[t].pc = "idle"
    /\ turn' = [turn EXCEPT ![t] =
                  [pc |-> "find", agent_id |-> agent_id,
                   chat_session_id |-> chat_session_id, sid |-> sid,
                   message |-> UserMessage,
                   user_message_id |-> <<"uuid4", "user", t>>,
                   agent_message_id |-> <<"uuid4", "agent", t>>,
                   user_message_created_at |->
                       IF created_at # 0 THEN created_at ELSE now,
                   agent_message_created_at |-> 0,
                   conversation_id |-> << >>, chat_history |-> << >>,
                   stream |-> sid # "", reply |-> << >>, chunks_left |-> << >>,
                   response_text |-> << >>, result |-> "none",
                   upstream_failed |-> FALSE, dropped |-> FALSE,
                   text_at_drop |-> << >>,
                   after_rotation |-> rotate.pc = "rotated",
                   earlier |-> {u \in Turns : turn[u].pc = "returned"}]]
    /\ now' = now + 1
    /\ UNCHANGED <<sessions, chatMessages, persist, rotate, frames, connected>>
    /\ UNCHANGED <<kb, indexVars, deleteVars, ingestVars, readVars, requestVars>>

\* get_chat_session_data: await collection.find_one(...)
SessionFind(t) ==
    /\ turn[t].pc = "find"
    /\ LET rows == SessionRowsOf(sessions, turn[t].agent_id, turn[t].chat_session_id)
       IN  IF rows = {}
           THEN turn' = [turn EXCEPT ![t].pc = "insert"]
           ELSE \E document \in rows :
                   turn' = [turn EXCEPT ![t].pc = "hist",
                                        ![t].conversation_id = document.conversation_id]
    /\ UNCHANGED <<sessions, chatMessages, persist, rotate, frames, connected, now>>
    /\ UNCHANGED <<kb, indexVars, deleteVars, ingestVars, readVars, requestVars>>

\* get_chat_session_data: await collection.insert_one(document); an
\* exception makes it return None and the turn goes on without a session
SessionInsert(t, ok) ==
    /\ turn[t].pc = "insert"
    /\ LET document == NewSessionRow("turn", t, turn[t].agent_id, turn[t].chat_session_id)
       IN  IF ok
           THEN /\ sessions' = sessions \cup {document}
                /\ turn' = [turn EXCEPT ![t].pc = "prepare",
                                        ![t].conversation_id = document.conversation_id]
           ELSE /\ turn' = [turn EXCEPT ![t].pc = "prepare"]
                /\ UNCHANGED sessions
    /\ UNCHANGED <<chatMessages, persist, rotate, frames, connected, now>>
    /\ UNCHANGED <<kb, indexVars, deleteVars, ingestVars, readVars, requestVars>>

\* get_chat_session_data: await get_chat_messages_for_session(...)
SessionHistory(t) ==
    /\ turn[t].pc = "hist"
    /\ turn' = [turn EXCEPT ![t].pc = "prepare",
                            ![t].chat_history =
                                get_chat_messages_for_session(
                                    chatMessages, turn[t].agent_id,
                                    turn[t].chat_session_id, ChatHistoryLimit,
                                    turn[t].conversation_id)]
    /\ UNCHANGED <<sessions, chatMessages, persist, rotate, frames, connected, now>>
    /\ UNCHANGED <<kb, indexVars, deleteVars, ingestVars, readVars, requestVars>>

\* enhance_user_message, then get_agent_by_id and
\* search_and_merge_agent_knowledge: each catches the failure of its upstream
\* call (LLM, embeddings, vector DB) and returns a default
Prepare(t, ok) ==
    /\ turn[t].pc = "prepare"
    /\ turn' = [turn EXCEPT ![t].pc = "handler",
                            ![t].upstream_failed = @ \/ ~ok]
    /\ UNCHANGED <<sessions, chatMessages, persist, rotate, frames, connected, now>>
    /\ UNCHANGED <<kb, indexVars, deleteVars, ingestVars, readVars, requestVars>>

\* await handler(chat_payload); the handlers re-raise.  Without streaming
\* the reply is the text and the turn stores and returns at once.
CallHandler(t, ok, reply) ==
    /\ turn[t].pc = "handler"
    /\ LET me == turn[t]
           stamped == [me EXCEPT !.agent_message_created_at = now, !.reply = reply]
       IN  IF ~ok
           THEN /\ turn' = [turn EXCEPT ![t] = Failed(me, TRUE)]
                /\ UNCHANGED <<persist, now>>
           ELSE IF me.stream
           THEN /\ turn' = [turn EXCEPT ![t] =
                              [stamped EXCEPT !.pc = "stream", !.chunks_left = reply]]
                /\ now' = now + 1
                /\ UNCHANGED persist
           ELSE /\ turn' = [turn EXCEPT ![t] =
                              [stamped EXCEPT !.pc = "returned", !.result = "success",
                                              !.response_text = Concat(reply)]]
                /\ now' = now + 1
                /\ persist' = [persist EXCEPT ![t] =
                                 IF me.chat_session_id # ""
                                 THEN PersistTask(stamped, Concat(reply)) ELSE @]
    /\ UNCHANGED <<sessions, chatMessages, rotate, frames, connected>>
    /\ UNCHANGED <<kb, indexVars, deleteVars, ingestVars, readVars, requestVars>>

\* one round of "async for chunk in response_obj": the chunk is appended and
\* emitted with done=False; an exception of the stream ends the turn
StreamChunk(t, ok) ==
    /\ turn[t].pc = "stream"
    /\ turn[t].chunks_left # << >>
    /\ LET me == turn[t]
           chunk == Head(me.chunks_left)
       IN  IF ok
           THEN /\ turn' = [turn EXCEPT ![t].response_text = @ \o chunk,
                                        ![t].chunks_left = Tail(@)]
                /\ frames' = [frames EXCEPT ![t] =
                                emit_atlas_response_chunk(@, connected[t], chunk,
                                                          FALSE, me.sid)]
           ELSE /\ turn' = [turn EXCEPT ![t] = Failed(me, TRUE)]
                /\ UNCHANGED frames
    /\ UNCHANGED <<sessions, chatMessages, persist, rotate, connected, now>>
    /\ UNCHANGED <<kb, indexVars, deleteVars, ingestVars, readVars, requestVars>>

\* the iterator is exhausted: the call of the final "done" signal, then the
\* task that stores the messages.  A call with a keyword the callee does not
\* declare raises TypeError, which the outer except clause catches.
StreamEnd(t) ==
    /\ turn[t].pc = "stream"
    /\ turn[t].chunks_left = << >>
    /\ LET me == turn[t]
       IN  IF me.sid # "" /\ ~(TerminalCallArguments \subseteq EmitParameters)
           THEN /\ turn' = [turn EXCEPT ![t] = Failed(me, FALSE)]
                /\ UNCHANGED <<frames, persist>>
           ELSE /\ frames' = [frames EXCEPT ![t] =
                                emit_atlas_response_chunk(@, connected[t], << >>,
                                                          TRUE, me.sid)]
                /\ turn' = [turn EXCEPT ![t].pc = "returned", ![t].result = "success"]
                /\ persist' = [persist EXCEPT ![t] =
                                 IF me.chat_session_id # ""
                                 THEN PersistTask(me, me.response_text) ELSE @]
    /\ UNCHANGED <<sessions, chatMessages, rotate, connected, now>>
    /\ UNCHANGED <<kb, indexVars, deleteVars, ingestVars, readVars, requestVars>>

\* the transport of the socket drops while the reply is being streamed
Disconnect(t) ==
    /\ turn[t].pc = "stream"
    /\ connected[t]
    /\ connected' = [connected EXCEPT ![t] = FALSE]
    /\ turn' = [turn EXCEPT ![t].dropped = TRUE,
                            ![t].text_at_drop = turn[t].response_text]
    /\ UNCHANGED <<sessions, chatMessages, persist, rotate, frames, now>>
    /\ UNCHANGED <<kb, indexVars, deleteVars, ingestVars, readVars, requestVars>>

\* create_and_store_chat_messages: get_chat_session_data, find_one
PersistFind(t) ==
    /\ persist[t].pc = "find"
    /\ LET rows == SessionRowsOf(sessions, persist[t].agent_id, persist[t].chat_session_id)
       IN  IF rows = {}
           THEN persist' = [persist EXCEPT ![t].pc = "insert"]
           ELSE \E document \in rows :
                   persist' = [persist EXCEPT ![t].pc = "store",
                                 ![t].conversation_id = document.conversation_id]
    /\ UNCHANGED <<sessions, chatMessages, turn, rotate, frames, connected, now>>
    /\ UNCHANGED <<kb, indexVars, deleteVars, ingestVars, readVars, requestVars>>

\* create_and_store_chat_messages: get_chat_session_data, insert_one
PersistInsertSession(t) ==
    /\ persist[t].pc = "insert"
    /\ LET document == NewSessionRow("persist", t, persist[t].agent_id,
                                     persist[t].chat_session_id)
       IN  /\ sessions' = sessions \cup {document}
           /\ persist' = [persist EXCEPT ![t].pc = "store",
                            ![t].conversation_id = document.conversation_id]
    /\ UNCHANGED <<chatMessages, turn, rotate, frames, connected, now>>
    /\ UNCHANGED <<kb, indexVars, deleteVars, ingestVars, readVars, requestVars>>

\* create_and_store_chat_messages: await collection.insert_many(messages)
PersistStore(t) ==
    /\ persist[t].pc = "store"
    /\ LET me == persist[t]
       IN  chatMessages' = chatMessages \cup
               {MessageDocument(me.agent_id, me.chat_session_id, me.conversation_id, p) :
                   p \in {me.user_payload, me.agent_payload}}
    /\ persist' = [persist EXCEPT ![t].pc = "done"]
    /\ UNCHANGED <<sessions, turn, rotate, frames, connected, now>>
    /\ UNCHANGED <<kb, indexVars, deleteVars, ingestVars, readVars, requestVars>>

\* the turns whose chat_with_agent_v1 has returned its reply
Answered == {t \in Turns : turn[t].pc = "returned" /\ turn[t].result = "success"}

\* rotate_conversation_id: await collection.find_one(...)
RotateFind(agent_id, chat_session_id) ==
    /\ rotate.pc = "idle"
    /\ LET rows == SessionRowsOf(sessions, agent_id, chat_session_id)
       IN  IF rows = {}
           THEN rotate' = [rotate EXCEPT !.pc = "notfound"]
           ELSE \E document \in rows :
                   rotate' = [pc |-> "update", doc_id |-> document._id,
                              before |-> Answered]
    /\ UNCHANGED <<sessions, chatMessages, turn, persist, frames, connected, now>>
    /\ UNCHANGED <<kb, indexVars, deleteVars, ingestVars, readVars, requestVars>>

\* rotate_conversation_id: await collection.update_one({"_id": ...}, $set)
RotateUpdate ==
    /\ rotate.pc = "update"
    /\ sessions' = {IF r._id = rotate.doc_id
                    THEN [r EXCEPT !.conversation_id = <<"conv", "rotate", 0>>]
                    ELSE r : r \in sessions}
    /\ rotate' = [rotate EXCEPT !.pc = "rotated"]
    /\ UNCHANGED <<chatMessages, turn, persist, frames, connected, now>>
    /\ UNCHANGED <<kb, indexVars, deleteVars, ingestVars, readVars, requestVars>>

(***************************************************************************)
(* remove_agent_by_id (agent_services.py): every await is a step.          *)
(***************************************************************************)
SourceCollections ==
    {"atlas_agent_urls", "atlas_agent_files", "atlas_custom_texts", "atlas_qa_pairs"}

IdleDelete == [pc |-> "idle"]

\* collection.delete_many({"agent_id": agent_id})
DeleteManyRows(rows, collection, agent_id) ==
    {r \in rows : ~(r.collection = collection /\ r.agent_id = agent_id)}

\* await collection.delete_one({"_id": ObjectId(agent_id)})
remove_agent_by_id(agent_id) ==
    /\ del.pc = "idle"
    /\ agentRows' = agentRows \ {agent_id}
    /\ del' = [pc |-> "urls", agent_id |-> agent_id]
    /\ UNCHANGED <<kb, wc, sourceRows>>
    /\ UNCHANGED <<indexVars, chatVars, ingestVars, readVars, requestVars>>

\* remove_agent_urls: await urls_collection.delete_many(...)
remove_agent_urls ==
    /\ del.pc = "urls"
    /\ sourceRows' = DeleteManyRows(sourceRows, "atlas_agent_urls", del.agent_id)
    /\ del' = [del EXCEPT !.pc = "knowledge_base"]
    /\ UNCHANGED <<kb, wc, agentRows>>
    /\ UNCHANGED <<indexVars, chatVars, ingestVars, readVars, requestVars>>

\* remove_all_qdrant_agent_points: the delete in agent_knowledge_base
RemoveKnowledgeBasePoints ==
    /\ del.pc = "knowledge_base"
    /\ kb' = DeleteByFilter(kb, {<<"agent_id", del.agent_id>>})
    /\ del' = [del EXCEPT !.pc = "web_catalog"]
    /\ UNCHANGED <<wc, agentRows, sourceRows>>
    /\ UNCHANGED <<indexVars, chatVars, ingestVars, readVars, requestVars>>

\* remove_all_qdrant_agent_points: the delete in agent_web_catalog
RemoveWebCatalogPoints ==
    /\ del.pc = "web_catalog"
    /\ wc' = DeleteByFilter(wc, {<<"agent_id", del.agent_id>>})
    /\ del' = [del EXCEPT !.pc = "files"]
    /\ UNCHANGED <<kb, agentRows, sourceRows>>
    /\ UNCHANGED <<indexVars, chatVars, ingestVars, readVars, requestVars>>

remove_all_agent_files ==
    /\ del.pc = "files"
    /\ sourceRows' = DeleteManyRows(sourceRows, "atlas_agent_files", del.agent_id)
    /\ del' = [del EXCEPT !.pc = "custom_texts"]
    /\ UNCHANGED <<kb, wc, agentRows>>
    /\ UNCHANGED <<indexVars, chatVars, ingestVars, readVars, requestVars>>

remove_agent_custom_texts ==
    /\ del.pc = "custom_texts"
    /\ sourceRows' = DeleteManyRows(sourceRows, "atlas_custom_texts", del.agent_id)
    /\ del' = [del EXCEPT !.pc = "qa_pairs"]
    /\ UNCHANGED <<kb, wc, agentRows>>
    /\ UNCHANGED <<indexVars, chatVars, ingestVars, readVars, requestVars>>

\* the last delete_many; remove_agent_by_id then returns True
remove_agent_qa_pairs ==
    /\ del.pc = "qa_pairs"
    /\ sourceRows' = DeleteManyRows(sourceRows, "atlas_qa_pairs", del.agent_id)
    /\ del' = [del EXCEPT !.pc = "returned"]
    /\ UNCHANGED <<kb, wc, agentRows>>
    /\ UNCHANGED <<indexVars, chatVars, ingestVars, readVars, requestVars>>

(***************************************************************************)
(* The background ingestion task: initialize_agent_build_update and        *)
(* initialize_agent_update (agent_services.py) with index_agent_urls,      *)
(* index_agent_files and index_custom_knowledge_for_agent.  Every await    *)
(* that changes state is a step.  A call of index_*_in_knowledge_base is   *)
(* one step here: its own awaits are the steps of the indexing runs above,  *)
(* and the clock of created_at does not advance during a task.             *)
(***************************************************************************)
Jobs == {1, 2}

SourceKinds == {"links", "files", "custom_texts", "qa_pairs"}

\* the knowledge_type and the row collection of each list of a request
TypeOfKind ==
    [links |-> "url", files |-> "file",
     custom_texts |-> "custom_text", qa_pairs |-> "custom_qa"]

CollectionOfType ==
    [url |-> "atlas_agent_urls", file |-> "atlas_agent_files",
     custom_text |-> "atlas_custom_texts", custom_qa |-> "atlas_qa_pairs"]

\* index_agent_urls(agent_id, links, batch_size=5)
IndexBatchSize == 5

\* how a call of an indexer can go wrong
IndexFaults == {"none", "collection", "embeddings", "upsert"}

\* the requests of the model: a list per kind; a file entry may come
\* without its file_key
IngestRequests ==
    [links : {<< >>, <<[source |-> "s1", content |-> "short"]>>},
     files : {<< >>,
              <<[source |-> "s1", content |-> "short", file_key |-> TRUE]>>,
              <<[source |-> "s1", content |-> "short", file_key |-> FALSE],
                [source |-> "s2", content |-> "short", file_key |-> TRUE]>>,
              <<[source |-> "s1", content |-> "empty", file_key |-> TRUE],
                [source |-> "s2", content |-> "short", file_key |-> TRUE]>>},
     custom_texts : {<< >>, <<[source |-> "s1", content |-> "short"]>>},
     qa_pairs : {<< >>, <<[source |-> "s1", content |-> "short"]>>}]

\* UpdateOne(filter, {"$set": {"status": status, ...}}, upsert=True) for
\* every knowledge source of the set
UpsertRows(rows, collection, agent_id, sources, status) ==
    {r \in rows : ~(/\ r.collection = collection /\ r.agent_id = agent_id
                    /\ r.knowledge_source \in sources)}
    \cup {[collection |-> collection, agent_id |-> agent_id,
           knowledge_source |-> s, status |-> status] : s \in sources}

RECURSIVE DeleteAll(_, _)
\* for ..., delete_filter in delete_filters: await client.delete(...)
DeleteAll(points, filters) ==
    IF filters = << >> THEN points
    ELSE DeleteAll(DeleteByFilter(points, Head(filters).filter), Tail(filters))

\* a whole call of index_*_in_knowledge_base: the points it leaves, its
\* total_processed and the knowledge sources whose chunks it upserted
IndexWhole(points, agent_id, ktype, batch, fresh, created_at, fault) ==
    LET valid == SelectValid(ktype, batch)
        chunks == CollectChunks(ktype, agent_id, valid)
        all_points == IF fault = "embeddings" THEN << >>
                      ELSE [k \in 1..Len(chunks) |->
                              MakePoint(ktype, chunks[k], fresh + k - 1, created_at)]
        cleared == DeleteAll(points, CollectFilters(ktype, agent_id, valid))
    IN  IF fault = "collection"
        THEN [points |-> points, total_processed |-> 0, upserted |-> {}]
        ELSE IF fault = "upsert"
        THEN [points |-> cleared, total_processed |-> Len(valid), upserted |-> {}]
        ELSE [points |-> UpsertPoints(cleared, all_points),
              total_processed |-> Len(valid),
              upserted |-> {<<ktype, all_points[k].knowledge_source>> :
                               k \in 1..Len(all_points)}]

\* index_links_in_qdrant(agent_id, fetch_results): the chunks of the fetched
\* pages go to the knowledge base
index_links_in_qdrant(points, agent_id, fetch_results, fresh, created_at, fault) ==
    IndexWhole(points, agent_id, "url", fetch_results, fresh, created_at, fault)

\* where the task goes after the custom texts
AfterTexts(request) ==
    IF request.qa_pairs # << >> THEN "index_qa" ELSE "activate"

\* a task that sets the agent active right after the files
AfterFilesSkipping(request) == "activate"

\* where the task goes after the files: if custom_texts or qa_pairs
AfterFiles(request) ==
    IF request.custom_texts # << >> THEN "index_texts" ELSE AfterTexts(request)

\* where the task goes after the links: if files
AfterLinks(request) ==
    IF request.files # << >> THEN "extract" ELSE AfterFiles(request)

\* where the task goes once the status is indexing: if links
AfterStatus(request) ==
    IF request.links # << >> THEN "fetch" ELSE AfterLinks(request)

\* update_agent_status(agent_id, agent_status): a failed update is logged
\* and leaves the row as it is
update_agent_status(status, agent_id, agent_status, ok) ==
    IF ok /\ agent_id \in agentRows
    THEN [status EXCEPT ![agent_id] = agent_status]
    ELSE status

\* the task starts: await update_agent_status(agent_id, "indexing") in
\* initialize_agent_build_update, "updating" in initialize_agent_update
StartIngest(j, agent_id, operation, request, ok) ==
    /\ job[j].pc = "idle"
    /\ agentStatus' = update_agent_status(agentStatus, agent_id,
                          IF operation = "update" THEN "updating" ELSE "indexing", ok)
    /\ job' = [job EXCEPT ![j] =
                 [pc |-> IF operation = "update" THEN "metadata"
                         ELSE AfterStatus(request),
                  agent_id |-> agent_id, operation |-> operation,
                  request |-> request, attempted |-> {}, touched |-> {},
                  upserted |-> {}, batch_start |-> 0, fetch_results |-> << >>,
                  files_data |-> << >>, ri |-> 1, total_inserted |-> 0]]
    /\ UNCHANGED <<kb, indexVars, deleteVars, chatVars, fetch, readVars, requestVars>>

\* initialize_agent_update: the metadata updates, then
\* await update_agent_status(agent_id, "indexing")
UpdateMetadata(j, ok) ==
    /\ job[j].pc = "metadata"
    /\ agentStatus' = update_agent_status(agentStatus, job[j].agent_id, "indexing", ok)
    /\ job' = [job EXCEPT ![j].pc = AfterStatus(job[j].request)]
    /\ UNCHANGED <<kb, indexVars, deleteVars, chatVars, fetch, readVars, requestVars>>

\* index_agent_urls: await fetch_multiple_urls_content(batch_links); an
\* exception gives an error record for every link of the batch
FetchLinks(j, ok) ==
    /\ job[j].pc = "fetch"
    /\ LET me == job[j]
           batch_links == SubSeq(me.request.links, me.batch_start + 1,
                                 Min2(me.batch_start + IndexBatchSize,
                                      Len(me.request.links)))
       IN  job' = [job EXCEPT
                ![j].pc = "index_links",
                ![j].attempted = @ \cup {"links"},
                ![j].touched = @ \cup {<<"links", batch_links[i].source>> :
                                          i \in 1..Len(batch_links)},
                ![j].fetch_results =
                    IF ok THEN batch_links
                    ELSE [i \in 1..Len(batch_links) |->
                            [source |-> batch_links[i].source, content |-> "empty"]]]
    /\ UNCHANGED <<kb, indexVars, deleteVars, chatVars, agentStatus, fetch, readVars, requestVars>>

\* index_agent_urls: await index_links_in_qdrant(agent_id, fetch_results);
\* its result is logged, its exception caught
IndexLinks(j, ok, fault) ==
    /\ job[j].pc = "index_links"
    /\ IF ok
       THEN \E r \in {index_links_in_qdrant(kb, job[j].agent_id, job[j].fetch_results,
                                            uuidNext, started, fault)} :
                /\ kb' = r.points
                /\ uuidNext' = uuidNext + Cardinality(r.points \ kb)
                /\ job' = [job EXCEPT ![j].pc = "url_rows",
                                      ![j].upserted = @ \cup r.upserted]
       ELSE /\ job' = [job EXCEPT ![j].pc = "url_rows"]
            /\ UNCHANGED <<kb, uuidNext>>
    /\ UNCHANGED <<run, started, prevRun, lastIndexed, crashedRun, activeType>>
    /\ UNCHANGED <<deleteVars, chatVars, agentStatus, fetch, readVars, requestVars>>

\* index_agent_urls: await collection.bulk_write(...) of one row per result,
\* each with status "indexing"; then the next batch or return
UrlRows(j, ok) ==
    /\ job[j].pc = "url_rows"
    /\ LET me == job[j]
           links == BatchSources(me.fetch_results)
           batch_end == Min2(me.batch_start + IndexBatchSize, Len(me.request.links))
       IN  /\ sourceRows' = IF ok
                            THEN UpsertRows(sourceRows, "atlas_agent_urls",
                                            me.agent_id, links, "indexing")
                            ELSE sourceRows
           /\ job' = [job EXCEPT
                ![j].total_inserted = IF ok THEN @ + Cardinality(links) ELSE @,
                ![j].batch_start = batch_end,
                ![j].pc = IF batch_end < Len(me.request.links) THEN "fetch"
                          ELSE AfterLinks(me.request)]
    /\ UNCHANGED <<kb, wc, agentRows, del>>
    /\ UNCHANGED <<indexVars, chatVars, agentStatus, fetch, readVars, requestVars>>

\* the entries extract_texts_from_files reads before it returns or raises:
\* file_dict['file_key'] raises KeyError at the first entry without the key
FilesRead(files) ==
    IF \E i \in 1..Len(files) : ~files[i].file_key
    THEN SubSeq(files, 1, CHOOSE i \in 1..Len(files) :
                             /\ ~files[i].file_key
                             /\ \A k \in 1..(i - 1) : files[k].file_key)
    ELSE files

\* index_agent_files: await extract_texts_from_files(files); an exception
\* is caught by index_agent_files, which returns False
ExtractFiles(j) ==
    /\ job[j].pc = "extract"
    /\ LET me == job[j]
           files == me.request.files
           read == FilesRead(files)
           raised == \E i \in 1..Len(files) : ~files[i].file_key
       IN  job' = [job EXCEPT
                ![j].attempted = @ \cup {"files"},
                ![j].touched = @ \cup {<<"files", read[i].source>> :
                                          i \in 1..Len(read)},
                ![j].files_data = IF raised THEN << >> ELSE files,
                ![j].pc = IF raised THEN AfterFiles(me.request) ELSE "index_files"]
    /\ UNCHANGED <<kb, indexVars, deleteVars, chatVars, agentStatus, fetch, readVars, requestVars>>

\* index_agent_files: await index_files_in_knowledge_base(agent_id, files_data)
IndexFiles(j, fault) ==
    /\ job[j].pc = "index_files"
    /\ \E r \in {IndexWhole(kb, job[j].agent_id, "file", job[j].files_data,
                             uuidNext, started, fault)} :
           /\ kb' = r.points
           /\ job' = [job EXCEPT
                ![j].upserted = @ \cup r.upserted,
                ![j].pc = IF r.total_processed > 0 THEN "file_rows"
                          ELSE AfterFiles(job[j].request)]
    /\ UNCHANGED <<run, uuidNext, started, prevRun, lastIndexed, crashedRun, activeType>>
    /\ UNCHANGED <<deleteVars, chatVars, agentStatus, fetch, readVars, requestVars>>

\* index_agent_files: await collection.bulk_write(...) of one row per entry
\* of files_data, each with status "indexed"
FileRows(j, ok) ==
    /\ job[j].pc = "file_rows"
    /\ LET me == job[j]
       IN  /\ sourceRows' = IF ok
                            THEN UpsertRows(sourceRows, "atlas_agent_files", me.agent_id,
                                            BatchSources(me.files_data), "indexed")
                            ELSE sourceRows
           /\ job' = [job EXCEPT ![j].pc = AfterFiles(me.request)]
    /\ UNCHANGED <<kb, wc, agentRows, del>>
    /\ UNCHANGED <<indexVars, chatVars, agentStatus, fetch, readVars, requestVars>>

\* index_custom_knowledge_for_agent: await
\* index_custom_texts_in_knowledge_base / index_qa_pairs_in_knowledge_base
IndexCustom(j, kind, fault) ==
    /\ job[j].pc = (IF kind = "custom_texts" THEN "index_texts" ELSE "index_qa")
    /\ \E r \in {IndexWhole(kb, job[j].agent_id, TypeOfKind[kind], job[j].request[kind],
                             uuidNext, started, fault)} :
           LET items == job[j].request[kind]
               after == IF kind = "custom_texts" THEN AfterTexts(job[j].request)
                        ELSE "activate"
           IN  /\ kb' = r.points
               /\ job' = [job EXCEPT
                    ![j].attempted = @ \cup {kind},
                    ![j].touched = @ \cup {<<kind, items[i].source>> :
                                              i \in 1..Len(items)},
                    ![j].upserted = @ \cup r.upserted,
                    ![j].ri = 1,
                    ![j].pc = IF SelectValid(TypeOfKind[kind], items) = << >> THEN after
                              ELSE IF kind = "custom_texts" THEN "text_rows"
                              ELSE "qa_rows"]
    /\ UNCHANGED <<run, uuidNext, started, prevRun, lastIndexed, crashedRun, activeType>>
    /\ UNCHANGED <<deleteVars, chatVars, agentStatus, fetch, readVars, requestVars>>

\* index_custom_knowledge_for_agent: await collection.update_one(...) for
\* the next valid item, with status "active"; an exception ends the loop
CustomRows(j, kind, ok) ==
    /\ job[j].pc = (IF kind = "custom_texts" THEN "text_rows" ELSE "qa_rows")
    /\ LET me == job[j]
           valid == SelectValid(TypeOfKind[kind], me.request[kind])
           after == IF kind = "custom_texts" THEN AfterTexts(me.request)
                    ELSE "activate"
       IN  /\ sourceRows' = IF ok
                            THEN UpsertRows(sourceRows, CollectionOfType[TypeOfKind[kind]],
                                            me.agent_id, {valid[me.ri].source}, "active")
                            ELSE sourceRows
           /\ job' = [job EXCEPT
                ![j].ri = @ + 1,
                ![j].pc = IF ok /\ me.ri < Len(valid) THEN @ ELSE after]
    /\ UNCHANGED <<kb, wc, agentRows, del>>
    /\ UNCHANGED <<indexVars, chatVars, agentStatus, fetch, readVars, requestVars>>

\* await update_agent_status(agent_id, "active"), then return True
SetActive(j, ok) ==
    /\ job[j].pc = "activate"
    /\ agentStatus' = update_agent_status(agentStatus, job[j].agent_id, "active", ok)
    /\ job' = [job EXCEPT ![j].pc = "returned"]
    /\ UNCHANGED <<kb, indexVars, deleteVars, chatVars, fetch, readVars, requestVars>>

\* the request carries a base_url that normalize_url rejects: the ValueError
\* leaves initialize_agent_build_update right after its status update, or
\* initialize_agent_update in its metadata stage, through the except clause,
\* which logs and returns False
BaseUrlRejected(j) ==
    /\ \/ job[j].pc = "metadata"
       \/ /\ job[j].pc \notin {"idle", "returned"}
          /\ job[j].operation = "build"
          /\ job[j].attempted = {}
          /\ job[j].pc = AfterStatus(job[j].request)
    /\ job' = [job EXCEPT ![j].pc = "returned"]
    /\ UNCHANGED <<kb, indexVars, deleteVars, chatVars, agentStatus, fetch, readVars, requestVars>>

(***************************************************************************)
(* fetch_multiple_urls_content and _process_single_url (url_services.py).  *)
(* A call creates its semaphore and one task per URL; a task enters the    *)
(* semaphore, runs up to its await of fetch_html_content, and leaves the   *)
(* semaphore with its result record.                                       *)
(***************************************************************************)
Fetchers == {1, 2}

\* batch_size: int = 5
FetchBatchSize == 5

\* the entries of a list of URLs: pages, an entry that is not a non-empty
\* string (""), and a string normalize_url rejects ("bad")
SixUrls == <<"u1", "u2", "u3", "u4", "u5", "u6">>

MixedUrls == <<"u1", "", "bad", "u2">>

\* how the fetch of a page can end
FetchOutcomes == {"ok", "timeout"}

\* the result record of one URL (success, url, text_content, error); the
\* url of an empty entry is None
ResultRecord(url, outcome) ==
    [success |-> outcome = "ok",
     url |-> IF url = "" THEN "None" ELSE url,
     text_content |-> IF outcome = "ok" THEN <<"text of", url>> ELSE <<"None">>,
     error |-> IF outcome = "ok" THEN "None" ELSE outcome]

\* a record list without the records of the failed items
ProcessedResultsWithoutFailures(results) == SelectSeq(results, LAMBDA r : r.success)

\* processed_results: every result of gather, in the order of the tasks
ProcessedResults(results) == results

\* fetch_multiple_urls_content(urls): the semaphore and the tasks are
\* created; an empty list returns [] at once
StartFetch(f, urls) ==
    /\ fetch[f].pc = "idle"
    /\ fetch' = [fetch EXCEPT ![f] =
                   IF urls = << >>
                   THEN [pc |-> "returned", urls |-> urls, processed_results |-> << >>]
                   ELSE [pc |-> "gather", urls |-> urls,
                         semaphore |-> FetchBatchSize,
                         task |-> [i \in 1..Len(urls) |-> "waiting"],
                         results |-> [i \in 1..Len(urls) |-> [success |-> FALSE]],
                         processed_results |-> << >>]]
    /\ UNCHANGED <<kb, indexVars, deleteVars, chatVars, job, agentStatus, readVars, requestVars>>

\* _process_single_url: async with semaphore; an invalid entry and a URL
\* that fails normalize_url return their record before any await
EnterSemaphore(f, i) ==
    /\ fetch[f].pc = "gather"
    /\ i \in 1..Len(fetch[f].urls)
    /\ fetch[f].task[i] = "waiting"
    /\ fetch[f].semaphore > 0
    /\ LET url == fetch[f].urls[i]
       IN  fetch' = [fetch EXCEPT ![f] =
                IF url = ""
                THEN [@ EXCEPT !.task[i] = "done",
                               !.results[i] = ResultRecord(url, "invalid entry")]
                ELSE IF url = "bad"
                THEN [@ EXCEPT !.task[i] = "done",
                               !.results[i] = ResultRecord(url, "validation error")]
                ELSE [@ EXCEPT !.task[i] = "in flight", !.semaphore = @ - 1]]
    /\ UNCHANGED <<kb, indexVars, deleteVars, chatVars, job, agentStatus, readVars, requestVars>>

\* _process_single_url: fetch_html_content has returned or raised; the task
\* returns its record and leaves the semaphore
FinishFetch(f, i, outcome) ==
    /\ fetch[f].pc = "gather"
    /\ i \in 1..Len(fetch[f].urls)
    /\ fetch[f].task[i] = "in flight"
    /\ fetch' = [fetch EXCEPT ![f].task[i] = "done",
                              ![f].results[i] = ResultRecord(fetch[f].urls[i], outcome),
                              ![f].semaphore = @ + 1]
    /\ UNCHANGED <<kb, indexVars, deleteVars, chatVars, job, agentStatus, readVars, requestVars>>

\* results = await asyncio.gather(*tasks, return_exceptions=True), then
\* return processed_results
GatherResults(f) ==
    /\ fetch[f].pc = "gather"
    /\ \A i \in 1..Len(fetch[f].urls) : fetch[f].task[i] = "done"
    /\ fetch' = [fetch EXCEPT ![f].pc = "returned",
                              ![f].processed_results = ProcessedResults(fetch[f].results)]
    /\ UNCHANGED <<kb, indexVars, deleteVars, chatVars, job, agentStatus, readVars, requestVars>>

(***************************************************************************)
(* fetch_agent_urls (agent_services.py): one page of an agent's URL rows,  *)
(* newest first, and the cursor of the next page.  The absent cursor is 0. *)
(***************************************************************************)
MaxRows == 4

MaxPages == 5

RECURSIVE SortNewestFirst(_)
\* .sort([("updated_at", -1), ("_id", -1)])
SortNewestFirst(rows) ==
    IF rows = {} THEN << >>
    ELSE LET first == CHOOSE x \in rows :
                        \A y \in rows :
                            \/ x.updated_at > y.updated_at
                            \/ (x.updated_at = y.updated_at /\ x._id >= y._id)
         IN  <<first>> \o SortNewestFirst(rows \ {first})

\* the rows the query of a page matches: the agent's rows, after the cursor
\* row when the cursor names a row
PageQuery(rows, agent_id, cursor) ==
    LET cursor_docs == {r \in rows : r._id = cursor}
    IN  IF cursor # 0 /\ cursor_docs # {}
        THEN LET cursor_updated_at == (CHOOSE r \in cursor_docs : TRUE).updated_at
             IN  {r \in rows : /\ r.agent_id = agent_id
                               /\ \/ r.updated_at < cursor_updated_at
                                  \/ (r.updated_at = cursor_updated_at /\ r._id < cursor)}
        ELSE {r \in rows : r.agent_id = agent_id}

\* fetch_agent_urls(agent_id, limit, cursor): data and next_cursor.  The
\* cursor is the _id of the row find_one returns for the updated_at of the
\* last item of the page, sorted newest first
fetch_agent_urls(rows, agent_id, limit, cursor) ==
    LET found == SortNewestFirst(PageQuery(rows, agent_id, cursor))
        has_more == Len(found) > limit
        urls == SubSeq(found, 1, Min2(limit, Len(found)))
        last_item_doc ==
            Head(SortNewestFirst({r \in rows : /\ r.agent_id = agent_id
                                               /\ r.updated_at = urls[Len(urls)].updated_at}))
    IN  [data |-> urls,
         next_cursor |-> IF urls # << >> /\ has_more THEN last_item_doc._id ELSE 0]

\* a client asks for the first page
StartListing(agent_id, limit) ==
    /\ pager.pc = "idle"
    /\ pager' = [pc |-> "paging", agent_id |-> agent_id, limit |-> limit,
                 cursor |-> 0, seen |-> << >>, pages |-> 0]
    /\ UNCHANGED <<kb, indexVars, deleteVars, chatVars, ingestVars, query, requestVars>>

\* the client gets a page and keeps its next_cursor
NextPage ==
    /\ pager.pc = "paging"
    /\ pager.pages < MaxPages
    /\ LET page == fetch_agent_urls(sourceRows, pager.agent_id, pager.limit, pager.cursor)
       IN  pager' = [pager EXCEPT
                !.seen = @ \o [i \in 1..Len(page.data) |-> page.data[i]._id],
                !.cursor = page.next_cursor,
                !.pages = @ + 1,
                !.pc = IF page.next_cursor = 0 THEN "done" ELSE "paging"]
    /\ UNCHANGED <<kb, indexVars, deleteVars, chatVars, ingestVars, query, requestVars>>

(***************************************************************************)
(* search_and_merge_agent_knowledge (atlas_query_qdrant_services.py).  A   *)
(* hit is its payload with the score injected; a dict is the sequence of   *)
(* its values in insertion order, one per key.                             *)
(***************************************************************************)
MaxHits == 2

\* the payloads a search of agent_web_catalog can return
CatalogHits == [knowledge_source : Sources, score : {1, 2}]

\* the payloads a search of agent_knowledge_base can return
KnowledgeHits == [knowledge_source : Sources, text_index : {0, 1}, score : {1, 2}]

\* every list of at most n elements of S
ListsUpTo(S, n) == UNION {[1..k -> S] : k \in 0..n}

\* list.remove(x): the list without its first element equal to x
RemoveFirst(s, x) ==
    IF \E i \in 1..Len(s) : s[i] = x
    THEN LET i == CHOOSE i \in 1..Len(s) : s[i] = x /\ \A k \in 1..(i - 1) : s[k] # x
         IN  SubSeq(s, 1, i - 1) \o SubSeq(s, i + 1, Len(s))
    ELSE s

RECURSIVE Deduplicate(_, _)
\* one item per (knowledge_source, text_index), the one of the higher score;
\* deduplicated holds the items kept so far
Deduplicate(all_knowledge, deduplicated) ==
    IF all_knowledge = << >> THEN deduplicated
    ELSE LET item == Head(all_knowledge)
             same == {i \in 1..Len(deduplicated) :
                        /\ deduplicated[i].knowledge_source = item.knowledge_source
                        /\ deduplicated[i].text_index = item.text_index}
         IN  IF same = {}
             THEN Deduplicate(Tail(all_knowledge), Append(deduplicated, item))
             ELSE LET seen == deduplicated[CHOOSE i \in same : TRUE]
                  IN  IF item.score > seen.score
                      THEN Deduplicate(Tail(all_knowledge),
                                       Append(RemoveFirst(deduplicated, seen), item))
                      ELSE Deduplicate(Tail(all_knowledge), deduplicated)

\* a list that takes every value, whatever its key
DictAppend(d, value) == Append(d, value)

\* d[value.knowledge_source] = value: the value replaces the one stored under
\* its key, at that one's place, or is added at the end
DictSet(d, value) ==
    IF \E i \in 1..Len(d) : d[i].knowledge_source = value.knowledge_source
    THEN [i \in 1..Len(d) |->
            IF d[i].knowledge_source = value.knowledge_source THEN value ELSE d[i]]
    ELSE Append(d, value)

\* d.get(key), None as the record of no source
DictGet(d, knowledge_source) ==
    IF \E i \in 1..Len(d) : d[i].knowledge_source = knowledge_source
    THEN d[CHOOSE i \in 1..Len(d) : d[i].knowledge_source = knowledge_source]
    ELSE [knowledge_source |-> ""]

RECURSIVE GroupBySource(_, _)
\* knowledge_groups: per knowledge_source the max_score and the text_index
\* values of its items
GroupBySource(deduplicated, knowledge_groups) ==
    IF deduplicated = << >> THEN knowledge_groups
    ELSE LET item == Head(deduplicated)
             old == DictGet(knowledge_groups, item.knowledge_source)
             group == IF old.knowledge_source = ""
                      THEN [knowledge_source |-> item.knowledge_source,
                            max_score |-> item.score,
                            text_contents |-> <<item.text_index>>]
                      ELSE [old EXCEPT !.max_score = Max2(@, item.score),
                                       !.text_contents = Append(@, item.text_index)]
         IN  IF item.knowledge_source = ""
             THEN GroupBySource(Tail(deduplicated), knowledge_groups)
             ELSE GroupBySource(Tail(deduplicated), DictSet(knowledge_groups, group))

RECURSIVE SortedIndexes(_)
\* sorted(group["text_contents"], key=text_index)
SortedIndexes(indexes) ==
    IF indexes = {} THEN << >>
    ELSE LET least == CHOOSE x \in indexes : \A y \in indexes : x <= y
         IN  <<least>> \o SortedIndexes(indexes \ {least})

\* merged_knowledge: one entry per group, its chunks combined in index order
MergedKnowledge(knowledge_groups) ==
    [i \in 1..Len(knowledge_groups) |->
        [knowledge_source |-> knowledge_groups[i].knowledge_source,
         score |-> knowledge_groups[i].max_score,
         text_content |-> SortedIndexes(SeqToSet(knowledge_groups[i].text_contents))]]

RECURSIVE AddCatalog(_, _)
\* final_merged, first loop: a card per catalog payload, without text
AddCatalog(catalog_payloads, final_merged) ==
    IF catalog_payloads = << >> THEN final_merged
    ELSE LET catalog_item == Head(catalog_payloads)
             card == [knowledge_source |-> catalog_item.knowledge_source,
                      summary |-> "summary", score |-> catalog_item.score,
                      text_content |-> <<"None">>]
         IN  IF catalog_item.knowledge_source = ""
             THEN AddCatalog(Tail(catalog_payloads), final_merged)
             ELSE AddCatalog(Tail(catalog_payloads), DictSet(final_merged, card))

RECURSIVE AddKnowledge(_, _)
\* final_merged, second loop: the text of a source joins its catalog card,
\* or makes a card of its own
AddKnowledge(merged_knowledge, final_merged) ==
    IF merged_knowledge = << >> THEN final_merged
    ELSE LET kb_item == Head(merged_knowledge)
             old == DictGet(final_merged, kb_item.knowledge_source)
             card == IF old.knowledge_source # ""
                     THEN [old EXCEPT !.text_content = kb_item.text_content,
                                      !.score = Max2(@, kb_item.score)]
                     ELSE [knowledge_source |-> kb_item.knowledge_source,
                           summary |-> "None", score |-> kb_item.score,
                           text_content |-> kb_item.text_content]
         IN  IF kb_item.knowledge_source = ""
             THEN AddKnowledge(Tail(merged_knowledge), final_merged)
             ELSE AddKnowledge(Tail(merged_knowledge), DictSet(final_merged, card))

RECURSIVE SortByScore(_)
\* sorted(..., key=score, reverse=True): stable, highest score first
SortByScore(cards) ==
    IF cards = << >> THEN << >>
    ELSE LET best == CHOOSE i \in 1..Len(cards) :
                        /\ \A k \in 1..Len(cards) : cards[i].score >= cards[k].score
                        /\ \A k \in 1..(i - 1) : cards[k].score < cards[i].score
         IN  <<cards[best]>>
             \o SortByScore(SubSeq(cards, 1, best - 1) \o SubSeq(cards, best + 1, Len(cards)))

\* steps 4 and 5: deduplicate, group, merge with the catalog, sort
MergeAndSort(catalog_payloads, source_based_knowledge, direct_knowledge) ==
    LET deduplicated == Deduplicate(source_based_knowledge \o direct_knowledge, << >>)
        merged_knowledge == MergedKnowledge(GroupBySource(deduplicated, << >>))
    IN  SortByScore(AddKnowledge(merged_knowledge, AddCatalog(catalog_payloads, << >>)))

\* await get_embeddings([message]) and await search_agent_web_catalog(...);
\* an exception makes the function return []
SearchCatalog(agent_id, ok, catalog_payloads) ==
    /\ query.pc = "idle"
    /\ query' = IF ok
                THEN [pc |-> "knowledge", agent_id |-> agent_id,
                      catalog_payloads |-> catalog_payloads,
                      source_based_knowledge |-> << >>, direct_knowledge |-> << >>,
                      final_results |-> << >>]
                ELSE [pc |-> "returned", agent_id |-> agent_id,
                      catalog_payloads |-> << >>,
                      source_based_knowledge |-> << >>, direct_knowledge |-> << >>,
                      final_results |-> << >>]
    /\ UNCHANGED <<kb, indexVars, deleteVars, chatVars, ingestVars, pager, requestVars>>

\* await asyncio.gather(source-based search, direct search): the first one
\* runs only for the knowledge_sources of the catalog hits; then the merge
SearchKnowledge(source_based_knowledge, direct_knowledge) ==
    /\ query.pc = "knowledge"
    /\ LET knowledge_sources ==
               {query.catalog_payloads[i].knowledge_source :
                   i \in 1..Len(query.catalog_payloads)}
       IN  \A i \in 1..Len(source_based_knowledge) :
               source_based_knowledge[i].knowledge_source \in knowledge_sources
    /\ query' = [query EXCEPT
            !.pc = "returned",
            !.source_based_knowledge = source_based_knowledge,
            !.direct_knowledge = direct_knowledge,
            !.final_results = MergeAndSort(query.catalog_payloads,
                                           source_based_knowledge, direct_knowledge)]
    /\ UNCHANGED <<kb, indexVars, deleteVars, chatVars, ingestVars, pager, requestVars>>

(***************************************************************************)
(* The prompt of a chat turn: enhance_user_message and                     *)
(* build_messages_list as chat_with_agent_v1 calls them.  Message contents *)
(* are sequences of characters; the fixed instructional text and the       *)
(* Knowledge-Base preamble are the tags "instructions" and "knowledge".    *)
(***************************************************************************)
\* the message argument of a chat request
UserQueries == {<<"h", "i">>, <<"i", "t", "?">>}

\* what openai_structured_output gives enhance_user_message: an exception,
\* or a response whose enhanced_message may be missing, blank, padded, the
\* query itself or another query
EnhancerOutcomes ==
    {[kind |-> "error"]}
    \cup {[kind |-> "response", enhanced_message |-> e] :
            e \in {<< >>, <<" ">>, <<" ", "h", "i", "\n">>, <<"w", "h", "o", "?">>}}

\* the messages get_chat_session_data returned for the session
ChatHistories ==
    {<< >>,
     <<[role |-> "user", content |-> <<"h", "i">>]>>,
     <<[role |-> "user", content |-> <<"w", "h", "o", "?">>],
       [role |-> "agent", content |-> <<"A">>]>>}

\* the agent configuration: agent_name and system_prompt may be missing
AgentConfigurations ==
    [agent_name : {<< >>, <<"A">>}, system_prompt : {<< >>, <<"b", "e">>}]

\* what format_knowledge_base_string returned
KnowledgeBaseStrings == {<< >>, <<"k", "b">>}

enhance_user_message(message, outcome) ==
    IF outcome.kind = "error" THEN message
    ELSE LET enhanced_message == Strip(outcome.enhanced_message)
         IN  IF enhanced_message # << >> THEN enhanced_message ELSE message

\* the list with the Knowledge-Base block placed after the user message
BuildMessagesKnowledgeLast(agent_data, message, knowledge_base_string, chat_history) ==
    <<[role |-> "system", content |-> <<"instructions", agent_data.agent_name>>]>>
    \o (IF agent_data.system_prompt # << >>
        THEN <<[role |-> "system", content |-> agent_data.system_prompt]>>
        ELSE << >>)
    \o [i \in 1..Len(chat_history) |->
          [role |-> IF chat_history[i].role = "agent" THEN "assistant"
                    ELSE chat_history[i].role,
           content |-> chat_history[i].content]]
    \o <<[role |-> "user", content |-> message]>>
    \o (IF knowledge_base_string # << >>
        THEN <<[role |-> "user", content |-> <<"knowledge", knowledge_base_string>>]>>
        ELSE << >>)

build_messages_list(agent_data, message, knowledge_base_string, chat_history) ==
    <<[role |-> "system", content |-> <<"instructions", agent_data.agent_name>>]>>
    \o (IF agent_data.system_prompt # << >>
        THEN <<[role |-> "system", content |-> agent_data.system_prompt]>>
        ELSE << >>)
    \o [i \in 1..Len(chat_history) |->
          [role |-> IF chat_history[i].role = "agent" THEN "assistant"
                    ELSE chat_history[i].role,
           content |-> chat_history[i].content]]
    \o (IF knowledge_base_string # << >>
        THEN <<[role |-> "user", content |-> <<"knowledge", knowledge_base_string>>]>>
        ELSE << >>)
    \o <<[role |-> "user", content |-> message]>>

\* chat_with_agent_v1 up to the enhancement of the query (lines 161-172)
EnhanceQuery(message, chat_history, outcome) ==
    /\ prompt.pc = "idle"
    /\ prompt' = [pc |-> "enhanced", message |-> message,
                  chat_history |-> chat_history,
                  enhanced_message |-> enhance_user_message(message, outcome)]
    /\ UNCHANGED <<kb, indexVars, deleteVars, chatVars, ingestVars, readVars>>
    /\ UNCHANGED <<chunker, plan>>

\* retrieval and agent lookup have returned: the list is assembled (line 189)
BuildMessages(agent_data, knowledge_base_string) ==
    /\ prompt.pc = "enhanced"
    /\ prompt' = [pc |-> "built", message |-> prompt.message,
                  chat_history |-> prompt.chat_history,
                  enhanced_message |-> prompt.enhanced_message,
                  agent_data |-> agent_data,
                  knowledge_base_string |-> knowledge_base_string,
                  messages |-> build_messages_list(agent_data, prompt.enhanced_message,
                                  knowledge_base_string, prompt.chat_history)]
    /\ UNCHANGED <<kb, indexVars, deleteVars, chatVars, ingestVars, readVars>>
    /\ UNCHANGED <<chunker, plan>>

(***************************************************************************)
(* Calls of the chunker with explicit chunk_size and chunk_overlap.  A     *)
(* text is a head of eight characters, so that the search window of a      *)
(* chunk_size of 10 (its last two characters) and what follows it range    *)
(* over every combination of letters, blanks, newlines and terminators.    *)
(***************************************************************************)
MaxTail == 2

Alphabet == {"x", " ", "\n", "."}

TextHeads ==
    {<<"x", "x", "x", "x", "x", "x", "x", "x">>,
     <<"x", " ", " ", " ", " ", " ", " ", " ">>,
     <<"x", ".", " ", "x", "\n", "\n", "x", "x">>}

\* the texts handed to the chunker
ChunkerTexts ==
    {head \o mid \o tail :
        head \in TextHeads,
        mid \in [1..2 -> Alphabet],
        tail \in UNION {[1..n -> Alphabet] : n \in 0..MaxTail}}

ChunkSizes == {5, 10}

ChunkOverlaps == {0, 2, 8, 10}

\* one call of chunk_text_content
ChunkText(text_content, chunk_size, chunk_overlap) ==
    /\ chunker.pc = "idle"
    /\ chunker' = [pc |-> "returned", text_content |-> text_content,
                   chunk_size |-> chunk_size, chunk_overlap |-> chunk_overlap,
                   chunks |-> chunk_text_content(text_content, chunk_size,
                                                 chunk_overlap)]
    /\ UNCHANGED <<kb, indexVars, deleteVars, chatVars, ingestVars, readVars>>
    /\ UNCHANGED <<prompt, plan>>

(***************************************************************************)
(* The quota of chat turns: chat_with_agent_controller_v1 with             *)
(* can_user_send_chat before the turn and the detached                     *)
(* decrement_user_ai_queries after it.  plan.ai_queries is the counter of  *)
(* the user's atlas_user_available_plan_limits document; granted and       *)
(* served record the credits at the start and the turns served since.      *)
(***************************************************************************)
MaxCredits == 2

ChatRequests == {1, 2, 3}

\* can_user_send_chat: the plan must be active and a credit must be left
can_user_send_chat(plan_active, ai_queries_remaining) ==
    IF ~plan_active THEN FALSE
    ELSE IF ai_queries_remaining <= 0 THEN FALSE
    ELSE TRUE

\* update_one({"ai_queries": {"$gt": 0}}, {"$inc": {"ai_queries": -1}})
decrement_user_ai_queries(ai_queries) ==
    IF ai_queries > 0 THEN ai_queries - 1 ELSE ai_queries

\* the controller asks for permission (lines 17-30)
CheckPermission(c, plan_active) ==
    /\ plan.request[c] = "idle"
    /\ plan' = [plan EXCEPT
          !.request[c] = IF can_user_send_chat(plan_active, plan.ai_queries)
                         THEN "permitted" ELSE "denied"]
    /\ UNCHANGED <<kb, indexVars, deleteVars, chatVars, ingestVars, readVars>>
    /\ UNCHANGED <<prompt, chunker>>

\* chat_with_agent_v1 returned (lines 36-39): a successful turn was served
\* and its decrement is handed to a detached task
ServeTurn(c, success) ==
    /\ plan.request[c] = "permitted"
    /\ plan' = [plan EXCEPT
          !.request[c] = IF success THEN "decrement" ELSE "done",
          !.served = IF success THEN @ + 1 ELSE @]
    /\ UNCHANGED <<kb, indexVars, deleteVars, chatVars, ingestVars, readVars>>
    /\ UNCHANGED <<prompt, chunker>>

\* the detached task runs; an error of the database is logged and swallowed
DecrementTask(c, ok) ==
    /\ plan.request[c] = "decrement"
    /\ plan' = [plan EXCEPT
          !.request[c] = "done",
          !.ai_queries = IF ok THEN decrement_user_ai_queries(@) ELSE @]
    /\ UNCHANGED <<kb, indexVars, deleteVars, chatVars, ingestVars, readVars>>
    /\ UNCHANGED <<prompt, chunker>>

(***************************************************************************)
(* Initial states and specifications.                                      *)
(***************************************************************************)
IndexKeys == Agents \X KnowledgeTypes \X Sources

IndexIdle ==
    /\ run = [r \in Runners |-> IdleRun]
    /\ uuidNext = 1
    /\ started = 0
    /\ prevRun = None
    /\ lastIndexed = [k \in IndexKeys |-> None]
    /\ crashedRun = None

ChatIdle ==
    /\ turn = [t \in Turns |-> IdleTurn]
    /\ persist = [t \in Turns |-> NoPersist]
    /\ rotate = IdleRotate
    /\ frames = [t \in Turns |-> << >>]
    /\ connected = [t \in Turns |-> TRUE]
    /\ now = 1

DeleteIdle == del = IdleDelete

\* no plan document and no chat request at the quota check
PlanIdle == plan = [pc |-> "idle"]

\* no ingestion task, no fetch job, no listing and no search under way
OthersIdle ==
    /\ job = [j \in Jobs |-> [pc |-> "idle"]]
    /\ agentStatus = [a \in Agents |-> "active"]
    /\ fetch = [f \in Fetchers |-> [pc |-> "idle"]]
    /\ pager = [pc |-> "idle"]
    /\ query = [pc |-> "idle"]
    /\ prompt = [pc |-> "idle"]
    /\ chunker = [pc |-> "idle"]

\* an empty knowledge base and no chat session yet
EmptyStores ==
    /\ kb = {}
    /\ wc = {}
    /\ agentRows = Agents
    /\ sourceRows = {}
    /\ sessions = {}
    /\ chatMessages = {}

InitIndex ==
    /\ EmptyStores /\ IndexIdle /\ ChatIdle /\ DeleteIdle /\ OthersIdle /\ PlanIdle
    /\ activeType \in KnowledgeTypes

\* one indexing task at a time, restarted after a crash
NextIndex ==
    \/ \E batch \in Batches : StartIndex(1, "a1", activeType, batch)
    \/ Embed(1, TRUE)
    \/ DeleteOld(1, TRUE)
    \/ UpsertAll(1, TRUE)
    \/ ReturnIndex(1)
    \/ CrashIndex(1)

SpecIndex == InitIndex /\ [][NextIndex]_vars

\* two indexing tasks of one agent running at the same time (two build or
\* update requests), no crash
NextConcurrent ==
    \E r \in Runners :
        \/ \E batch \in Batches : StartIndex(r, "a1", activeType, batch)
        \/ Embed(r, TRUE)
        \/ DeleteOld(r, TRUE)
        \/ UpsertAll(r, TRUE)
        \/ ReturnIndex(r)

SpecConcurrent == InitIndex /\ [][NextConcurrent]_vars

\* the empty installation: no point, no row, no session, nothing under way
InitChat ==
    /\ EmptyStores /\ IndexIdle /\ ChatIdle /\ DeleteIdle /\ OthersIdle /\ PlanIdle
    /\ activeType = "url"

\* two turns on one chat session, each over a socket or over HTTP, their
\* detached tasks, and one rotate-conversation request
NextChat ==
    \/ \E t \in Turns :
        \/ \E sid \in {"", SidOf[t]} : StartTurn(t, "a1", "cs1", sid, 0)
        \/ SessionFind(t)
        \/ \E ok \in BOOLEAN : SessionInsert(t, ok)
        \/ SessionHistory(t)
        \/ \E ok \in BOOLEAN : Prepare(t, ok)
        \/ \E ok \in BOOLEAN, reply \in Replies : CallHandler(t, ok, reply)
        \/ \E ok \in BOOLEAN : StreamChunk(t, ok)
        \/ StreamEnd(t)
        \/ Disconnect(t)
        \/ PersistFind(t)
        \/ PersistInsertSession(t)
        \/ PersistStore(t)
    \/ RotateFind("a1", "cs1")
    \/ RotateUpdate

SpecChat == InitChat /\ [][NextChat]_vars

\* what the four source collections can hold: one row per agent and collection
AllSourceRows ==
    {[collection |-> c, agent_id |-> a, knowledge_source |-> "s1"] :
        c \in SourceCollections, a \in Agents}

\* a populated installation: every agent has points in both vector
\* collections, a chat session with a stored turn, and some source rows
InitDelete ==
    /\ IndexIdle /\ ChatIdle /\ DeleteIdle /\ OthersIdle /\ PlanIdle
    /\ activeType = "url"
    /\ agentRows = Agents
    /\ sourceRows \in SUBSET AllSourceRows
    /\ kb = {MakePoint(k, [agent_id |-> a, knowledge_source |-> "s1",
                           text_index |-> 0, content |-> "short"], 0, 0) :
                k \in KnowledgeTypes, a \in Agents}
    /\ wc = {[agent_id |-> a, url |-> "s1"] : a \in Agents}
    /\ sessions = {NewSessionRow("turn", 1, a, "cs1") : a \in Agents}
    /\ chatMessages =
         {MessageDocument(a, "cs1", <<"conv", "turn", 1>>,
                          [message_id |-> <<"uuid4", role, 1>>, role |-> role,
                           content |-> UserMessage, created_at |-> 0]) :
             a \in Agents, role \in {"user", "agent"}}

NextDelete ==
    \/ \E agent_id \in Agents : remove_agent_by_id(agent_id)
    \/ remove_agent_urls
    \/ RemoveKnowledgeBasePoints
    \/ RemoveWebCatalogPoints
    \/ remove_all_agent_files
    \/ remove_agent_custom_texts
    \/ remove_agent_qa_pairs

SpecDelete == InitDelete /\ [][NextDelete]_vars

(***************************************************************************)
(* Claims about the indexer.                                               *)
(***************************************************************************)
NumChunks(ktype, content) == Len(ChunkTexts(ktype, content))

ValidSources(me) == {me.valid[i].source : i \in 1..Len(me.valid)}

\* no two points have the same (agent_id, knowledge_source, text_index)
NoDuplicateChunks(points) ==
    \A p, q \in points :
        (/\ p.agent_id = q.agent_id
         /\ p.knowledge_source = q.knowledge_source
         /\ p.text_index = q.text_index) => p = q

C2_SerializedAtVectorDb ==
    (/\ run[1].pc = "done" /\ run[2].pc = "done"
     /\ run[1].agent_id = run[2].agent_id /\ run[1].ktype = run[2].ktype) =>
        \A s \in ValidSources(run[1]) \cap ValidSources(run[2]) :
            (/\ NumChunks(run[1].ktype, ContentIn(run[1].batch, s)) > 0
             /\ NumChunks(run[2].ktype, ContentIn(run[2].batch, s)) > 0) =>
                \E r \in Runners :
                    PointsOf(kb, run[r].agent_id, run[r].ktype, s)
                        = {p \in SeqToSet(run[r].all_points) : p.knowledge_source = s}

\* C3: when a run has returned that gave a source fewer chunks than the
\* content it was indexed with before, every point of the source is a point
\* of this run.
C3_NoStaleChunks ==
    \A r \in Runners :
        LET me == run[r] IN
        (me.pc = "done" /\ me.errors = << >>) =>
            \A s \in ValidSources(me) :
                LET old == lastIndexed[<<me.agent_id, me.ktype, s>>] IN
                (/\ old.kind = "indexed"
                 /\ NumChunks(me.ktype, ContentIn(me.batch, s))
                        < NumChunks(me.ktype, old.content)) =>
                    \A p \in PointsOf(kb, me.agent_id, me.ktype, s) :
                        p.created_at = me.time

\* the same for new content that yields at least one chunk
C3_NoStaleChunksNonBlank ==
    \A r \in Runners :
        LET me == run[r] IN
        (me.pc = "done" /\ me.errors = << >>) =>
            \A s \in ValidSources(me) :
                LET old == lastIndexed[<<me.agent_id, me.ktype, s>>] IN
                (/\ old.kind = "indexed"
                 /\ NumChunks(me.ktype, ContentIn(me.batch, s)) > 0
                 /\ NumChunks(me.ktype, ContentIn(me.batch, s))
                        < NumChunks(me.ktype, old.content)) =>
                    \A p \in PointsOf(kb, me.agent_id, me.ktype, s) :
                        p.created_at = me.time

C5_HistoryEmptyAfterRotation ==
    \A t \in Turns :
        (turn[t].pc # "idle" /\ turn[t].after_rotation) =>
            \A i \in 1..Len(turn[t].chat_history) :
                turn[t].chat_history[i].message_id[3] \notin rotate.before

\* C6: no two rows of atlas_chat_sessions have the same agent_id and
\* chat_session_id.
C6_SessionUnique ==
    \A r1, r2 \in sessions :
        (r1.agent_id = r2.agent_id /\ r1.chat_session_id = r2.chat_session_id)
            => r1 = r2

\* the points, source rows, chat sessions and chat messages of an agent
OwnedBy(agent_id) ==
    [knowledge_base |-> {p \in kb : p.agent_id = agent_id},
     web_catalog |-> {p \in wc : p.agent_id = agent_id},
     sources |-> {r \in sourceRows : r.agent_id = agent_id},
     sessions |-> {r \in sessions : r.agent_id = agent_id},
     messages |-> {m \in chatMessages : m.agent_id = agent_id}]

\* C7: when remove_agent_by_id has returned, the agent has no point left in
\* either vector collection, no knowledge-source row, no chat session and no
\* chat message.
C7_DeleteAgentCascades ==
    del.pc = "returned" =>
        LET owned == OwnedBy(del.agent_id)
        IN  /\ owned.knowledge_base = {} /\ owned.web_catalog = {}
            /\ owned.sources = {}
            /\ owned.sessions = {} /\ owned.messages = {}

\* the same without the chat sessions and messages
C7_VectorsAndSourcesCascade ==
    del.pc = "returned" =>
        LET owned == OwnedBy(del.agent_id)
        IN  /\ owned.knowledge_base = {} /\ owned.web_catalog = {}
            /\ owned.sources = {}

\* the frames a socket must have received when the reply has been streamed
ExpectedFrames(me) ==
    [i \in 1..Len(me.reply) |-> [chunk |-> me.reply[i], done |-> FALSE]]
    \o <<[chunk |-> << >>, done |-> TRUE, full_response |-> Concat(me.reply),
          message_id |-> me.agent_message_id,
          created_at |-> me.agent_message_created_at, role |-> "agent"]>>

\* C8: when a turn over a socket has returned, its stream did not fail and
\* its transport stayed up, the socket has received one frame with done=false
\* per chunk and then one terminal frame with done=true, the whole reply, the
\* agent message id, the agent timestamp and role=agent.
C8_TerminalFrame ==
    \A t \in Turns :
        (/\ turn[t].pc = "returned" /\ turn[t].sid # ""
         /\ ~turn[t].upstream_failed
         /\ turn[t].reply # << >> /\ turn[t].chunks_left = << >>
         /\ connected[t]) =>
            frames[t] = ExpectedFrames(turn[t])

\* C9: when a turn in which an upstream call failed has returned, the last
\* frame its socket received is a terminal frame, and no task stores an
\* agent message for it.
C9_FallbackAndNoAgentMessage ==
    \A t \in Turns :
        (turn[t].pc = "returned" /\ turn[t].upstream_failed) =>
            /\ (turn[t].sid # "" /\ connected[t]) =>
                   /\ frames[t] # << >>
                   /\ frames[t][Len(frames[t])].done
            /\ persist[t].pc = "none"

\* C10: when a turn whose transport dropped while it streamed has returned,
\* nothing was read from the stream after the drop and a task stores the
\* turn's messages with the text accumulated until the drop.
C10_PersistAfterDrop ==
    \A t \in Turns :
        (turn[t].pc = "returned" /\ turn[t].dropped /\ ~turn[t].upstream_failed) =>
            /\ turn[t].response_text = turn[t].text_at_drop
            /\ persist[t].pc # "none"
            /\ persist[t].agent_payload.content = turn[t].text_at_drop

(***************************************************************************)
(* The history read of a turn over a stored conversation.                  *)
(***************************************************************************)
MaxStoredMessages == 12

\* message number k of a stored conversation, stamped k
StoredMessage(agent_id, chat_session_id, conversation_id, k) ==
    MessageDocument(agent_id, chat_session_id, conversation_id,
                    [message_id |-> <<"uuid4", IF k % 2 = 1 THEN "user" ELSE "agent", k>>,
                     role |-> IF k % 2 = 1 THEN "user" ELSE "agent",
                     content |-> UserMessage, created_at |-> k])

\* session (a1, cs1) is in its second conversation: n messages of the
\* current conversation were stored after the older messages of the first
InitHistory ==
    /\ kb = {} /\ wc = {} /\ agentRows = Agents /\ sourceRows = {}
    /\ IndexIdle /\ DeleteIdle /\ OthersIdle /\ PlanIdle
    /\ activeType = "url"
    /\ sessions = {[NewSessionRow("turn", 0, "a1", "cs1")
                      EXCEPT !.conversation_id = <<"conv", "rotate", 0>>]}
    /\ \E older \in 0..2, n \in 0..MaxStoredMessages :
          /\ chatMessages =
                {StoredMessage("a1", "cs1", <<"conv", "turn", 0>>, k) : k \in 1..older}
                \cup {StoredMessage("a1", "cs1", <<"conv", "rotate", 0>>, k) :
                         k \in (older + 1)..(older + n)}
          /\ now = older + n + 1
    /\ turn = [t \in Turns |-> IdleTurn]
    /\ persist = [t \in Turns |-> NoPersist]
    /\ rotate = IdleRotate
    /\ frames = [t \in Turns |-> << >>]
    /\ connected = [t \in Turns |-> TRUE]

\* turns that load the session and read its history
NextHistory ==
    \E t \in Turns :
        \/ \E sid \in {"", SidOf[t]} : StartTurn(t, "a1", "cs1", sid, 0)
        \/ SessionFind(t)
        \/ SessionHistory(t)
        \/ \E ok \in BOOLEAN : Prepare(t, ok)

SpecHistory == InitHistory /\ [][NextHistory]_vars

\* the messages of one conversation, oldest first
ConversationOf(agent_id, chat_session_id, conversation_id) ==
    SortByCreatedAt({m \in chatMessages : /\ m.agent_id = agent_id
                                          /\ m.chat_session_id = chat_session_id
                                          /\ m.conversation_id = conversation_id})

LastN(s, n) == SubSeq(s, Max2(1, Len(s) - n + 1), Len(s))

\* C11: the history a turn has read is the last ChatHistoryLimit messages of
\* the session's current conversation, oldest first.
C11_HistoryIsLastN ==
    \A t \in Turns :
        (turn[t].pc \in {"prepare", "handler"} /\ turn[t].conversation_id # << >>) =>
            turn[t].chat_history =
                LastN(ConversationOf(turn[t].agent_id, turn[t].chat_session_id,
                                     turn[t].conversation_id), ChatHistoryLimit)

\* the history is of the current conversation only, oldest first, and holds
\* at most ChatHistoryLimit messages
C11_HistoryScopedAndBounded ==
    \A t \in Turns :
        (turn[t].pc \in {"prepare", "handler"} /\ turn[t].conversation_id # << >>) =>
            LET h == turn[t].chat_history
            IN  /\ Len(h) <= ChatHistoryLimit
                /\ \A i \in 1..Len(h) : h[i].conversation_id = turn[t].conversation_id
                /\ \A i, j \in 1..Len(h) : i < j => h[i].created_at < h[j].created_at

(***************************************************************************)
(* Turns over HTTP whose request may carry a created_at of the client.     *)
(***************************************************************************)
\* no created_at (0), or one of a client whose clock is ahead of the server
ClientStamps == {0, 9}

NextClock ==
    \E t \in Turns :
        \/ \E created_at \in ClientStamps : StartTurn(t, "a1", "cs1", "", created_at)
        \/ SessionFind(t)
        \/ SessionInsert(t, TRUE)
        \/ SessionHistory(t)
        \/ Prepare(t, TRUE)
        \/ \E reply \in Replies : CallHandler(t, TRUE, reply)
        \/ PersistFind(t)
        \/ PersistStore(t)

SpecClock == InitChat /\ [][NextClock]_vars

\* C12: among the stored messages of one (chat_session_id, conversation_id),
\* the user message of a turn is stamped no later than its agent message, and
\* no message of a turn is stamped earlier than a message of a turn that had
\* returned when it arrived.
C12_CreatedAtMonotone ==
    \A m1, m2 \in chatMessages :
        (/\ m1.agent_id = m2.agent_id /\ m1.chat_session_id = m2.chat_session_id
         /\ m1.conversation_id = m2.conversation_id) =>
            /\ (/\ m1.message_id[3] = m2.message_id[3]
                /\ m1.role = "user" /\ m2.role = "agent")
                   => m1.created_at <= m2.created_at
            /\ m1.message_id[3] \in turn[m2.message_id[3]].earlier
                   => m1.created_at <= m2.created_at

\* the same for turns whose request carries no created_at
C12_MonotoneWhenServerStamped ==
    \A m1, m2 \in chatMessages :
        (/\ m1.agent_id = m2.agent_id /\ m1.chat_session_id = m2.chat_session_id
         /\ m1.conversation_id = m2.conversation_id
         /\ \A t \in {m1.message_id[3], m2.message_id[3]} :
               turn[t].user_message_created_at # 9) =>
            /\ (/\ m1.message_id[3] = m2.message_id[3]
                /\ m1.role = "user" /\ m2.role = "agent")
                   => m1.created_at <= m2.created_at
            /\ m1.message_id[3] \in turn[m2.message_id[3]].earlier
                   => m1.created_at <= m2.created_at


(***************************************************************************)
(* Ingestion tasks on an empty installation.                               *)
(***************************************************************************)
\* the lists of a request that hold at least one source
RequestedKinds(request) == {k \in SourceKinds : request[k] # << >>}

\* the first task builds or updates with any request, the second one is an
\* update of the agent's metadata, with no source
NextIngest ==
    \E j \in Jobs :
        \/ \E operation \in {"build", "update"}, request \in IngestRequests,
              ok \in BOOLEAN :
                /\ j = 1 \/ (operation = "update" /\ RequestedKinds(request) = {})
                /\ StartIngest(j, "a1", operation, request, ok)
        \/ \E ok \in BOOLEAN : UpdateMetadata(j, ok)
        \/ \E ok \in BOOLEAN : FetchLinks(j, ok)
        \/ \E ok \in BOOLEAN, fault \in IndexFaults : IndexLinks(j, ok, fault)
        \/ \E ok \in BOOLEAN : UrlRows(j, ok)
        \/ ExtractFiles(j)
        \/ \E fault \in IndexFaults : IndexFiles(j, fault)
        \/ \E ok \in BOOLEAN : FileRows(j, ok)
        \/ \E kind \in {"custom_texts", "qa_pairs"}, fault \in IndexFaults :
                IndexCustom(j, kind, fault)
        \/ \E kind \in {"custom_texts", "qa_pairs"}, ok \in BOOLEAN :
                CustomRows(j, kind, ok)
        \/ \E ok \in BOOLEAN : SetActive(j, ok)

SpecIngest == InitChat /\ [][NextIngest]_vars

RowStatus(rows, collection, agent_id, source) ==
    IF \E r \in rows : /\ r.collection = collection /\ r.agent_id = agent_id
                       /\ r.knowledge_source = source
    THEN (CHOOSE r \in rows : /\ r.collection = collection /\ r.agent_id = agent_id
                              /\ r.knowledge_source = source).status
    ELSE "none"

\* C14: after an ingestion run, every URL, file, custom-text and Q&A row
\* whose chunks were upserted by the run has status indexed.
C14_UpsertedRowsIndexed ==
    \A j \in Jobs :
        job[j].pc = "returned" =>
            \A u \in job[j].upserted :
                RowStatus(sourceRows, CollectionOfType[u[1]],
                          job[j].agent_id, u[2]) = "indexed"

\* the same for the files alone: a file whose chunks were upserted and whose
\* row was written has status indexed
C14_UpsertedFileRowsIndexed ==
    \A j \in Jobs :
        job[j].pc = "returned" =>
            \A u \in job[j].upserted :
                (u[1] = "file" /\ RowStatus(sourceRows, "atlas_agent_files",
                                            job[j].agent_id, u[2]) # "none")
                    => RowStatus(sourceRows, "atlas_agent_files",
                                 job[j].agent_id, u[2]) = "indexed"

\* C15: no exception escapes an ingestion task, and a failure while
\* processing one source ends the work for that source only: when the task
\* has returned, every source of every list of its request has been attempted.
C15_EverySourceAttempted ==
    \A j \in Jobs :
        job[j].pc = "returned" =>
            \A kind \in SourceKinds :
                \A i \in 1..Len(job[j].request[kind]) :
                    <<kind, job[j].request[kind][i].source>> \in job[j].touched

\* every task that has started reaches its return with every list of its
\* request attempted
C15_EveryKindAttempted ==
    \A j \in Jobs :
        job[j].pc = "returned" =>
            RequestedKinds(job[j].request) \subseteq job[j].attempted


(***************************************************************************)
(* Calls of fetch_multiple_urls_content, one per ingestion job.            *)
(***************************************************************************)
\* the first call takes six pages or the mixed list, the second one page
\* or no URL
NextFetch ==
    \E f \in Fetchers :
        \/ \E urls \in (IF f = 1 THEN {SixUrls, MixedUrls} ELSE {<<"u1">>, << >>}) :
                StartFetch(f, urls)
        \/ \E i \in 1..Len(SixUrls) : EnterSemaphore(f, i)
        \/ \E i \in 1..Len(SixUrls), outcome \in FetchOutcomes : FinishFetch(f, i, outcome)
        \/ GatherResults(f)

SpecFetch == InitChat /\ [][NextFetch]_vars

\* C16: a call returns exactly one result record per input item, in input
\* order, each the record of its own item whether or not another item failed
\* or timed out; and while the batch runs, a step of one item changes the
\* record of no other item.
C16_OneRecordPerItemInOrder ==
    /\ [](\A f \in Fetchers :
            fetch[f].pc = "returned" =>
                /\ Len(fetch[f].processed_results) = Len(fetch[f].urls)
                /\ \A i \in 1..Len(fetch[f].urls) :
                      /\ fetch[f].processed_results[i].url =
                            (IF fetch[f].urls[i] = "" THEN "None" ELSE fetch[f].urls[i])
                      /\ fetch[f].processed_results[i].success
                            = (fetch[f].processed_results[i].error = "None"))
    /\ [][\A f \in Fetchers :
            (fetch[f].pc = "gather" /\ fetch'[f].pc = "gather") =>
                \A i, k \in 1..Len(fetch[f].urls) :
                    (i # k /\ fetch[f].task[i] # fetch'[f].task[i])
                        => fetch'[f].results[k] = fetch[f].results[k]]_vars
    /\ [][\A f \in Fetchers :
            (fetch[f].pc = "gather" /\ fetch'[f].pc = "returned") =>
                \A i \in 1..Len(fetch[f].urls) :
                    fetch'[f].processed_results[i] = fetch[f].results[i]]_vars

\* a call has returned the records of six pages, one timed out and one
\* fetched
C16_Witness ==
    \E f \in Fetchers :
        /\ fetch[f].pc = "returned"
        /\ fetch[f].urls = SixUrls
        /\ fetch[f].processed_results[2].error = "timeout"
        /\ fetch[f].processed_results[3].success

\* the fetches in flight in one call
InFlight(f) ==
    IF fetch[f].pc = "gather"
    THEN Cardinality({i \in 1..Len(fetch[f].urls) : fetch[f].task[i] = "in flight"})
    ELSE 0

\* C17: at no moment are more URL fetches in flight than the cap of 5, also
\* when several ingestion jobs fetch at the same time.
C17_InFlightCapped == InFlight(1) + InFlight(2) <= FetchBatchSize

\* within one call the semaphore holds the cap
C17_InFlightCappedPerCall == \A f \in Fetchers : InFlight(f) <= FetchBatchSize


(***************************************************************************)
(* Indexing runs of every knowledge type on the same knowledge_source, one *)
(* after the other.                                                        *)
(***************************************************************************)
\* the batches of these runs: source s1 with a short or a long text
NextCross ==
    \/ \E ktype \in KnowledgeTypes, c \in {"short", "long"} :
            StartIndex(1, "a1", ktype, <<[source |-> "s1", content |-> c]>>)
    \/ Embed(1, TRUE)
    \/ DeleteOld(1, TRUE)
    \/ UpsertAll(1, TRUE)
    \/ ReturnIndex(1)

SpecCross == InitChat /\ [][NextCross]_vars

\* C18: no step of a run that re-indexes a source of one knowledge_type
\* removes a point of a different knowledge_type.
C18_NoCrossTypeDeletion ==
    [][\A p \in kb \ kb' : p.knowledge_type = run[1].ktype]_vars

\* the runs of files, custom texts and Q&A pairs remove points of their own
\* type only
C18_TypedRunsDeleteOwnType ==
    [][run[1].pc # "idle" /\ run[1].ktype # "url"
          => \A p \in kb \ kb' : p.knowledge_type = run[1].ktype]_vars


(***************************************************************************)
(* Listings of the URL rows of agent a1 over an unchanged collection.      *)
(***************************************************************************)
\* rows _id 1..n of agent a1, each updated at time 1, 2 or 3, and one row of a2
InitPage ==
    /\ IndexIdle /\ ChatIdle /\ DeleteIdle /\ OthersIdle /\ PlanIdle
    /\ activeType = "url"
    /\ kb = {} /\ wc = {} /\ agentRows = Agents
    /\ sessions = {} /\ chatMessages = {}
    /\ \E n \in 1..MaxRows :
         \E updated_at \in [1..n -> {1, 2, 3}] :
            sourceRows =
                {[collection |-> "atlas_agent_urls", agent_id |-> "a1",
                  _id |-> i, updated_at |-> updated_at[i]] : i \in 1..n}
                \cup {[collection |-> "atlas_agent_urls", agent_id |-> "a2",
                       _id |-> n + 1, updated_at |-> 1]}

NextPageListing ==
    \/ \E limit \in {1, 2} : StartListing("a1", limit)
    \/ NextPage

SpecPage == InitPage /\ [][NextPageListing]_vars

\* the _id values of an agent's rows
RowIdsOf(agent_id) == {r._id : r \in {x \in sourceRows : x.agent_id = agent_id}}

\* C19: following next_cursor from the first page on returns no row twice,
\* and when the last page has been returned every row of the agent has been
\* returned exactly once.
C19_EveryRowOnce ==
    pager.pc # "idle" =>
        /\ \A i, k \in 1..Len(pager.seen) : i # k => pager.seen[i] # pager.seen[k]
        /\ pager.pc = "done" => SeqToSet(pager.seen) = RowIdsOf(pager.agent_id)

\* the same when no two rows of the agent share their updated_at
C19_EveryRowOnceDistinctTimes ==
    (/\ pager.pc # "idle"
     /\ \A r1, r2 \in sourceRows :
           (r1.agent_id = pager.agent_id /\ r2.agent_id = pager.agent_id
            /\ r1.updated_at = r2.updated_at) => r1 = r2) =>
        /\ \A i, k \in 1..Len(pager.seen) : i # k => pager.seen[i] # pager.seen[k]
        /\ pager.pc = "done" => SeqToSet(pager.seen) = RowIdsOf(pager.agent_id)
        /\ pager.pc = "paging" => pager.pages < MaxRows


(***************************************************************************)
(* One retrieval with any hits of the three searches.                      *)
(***************************************************************************)
NextQuery ==
    \/ \E ok \in BOOLEAN, catalog_payloads \in ListsUpTo(CatalogHits, 2) :
            SearchCatalog("a1", ok, catalog_payloads)
    \/ \E source_based_knowledge \in ListsUpTo(KnowledgeHits, 1),
          direct_knowledge \in ListsUpTo(KnowledgeHits, MaxHits) :
            SearchKnowledge(source_based_knowledge, direct_knowledge)

SpecQuery == InitChat /\ [][NextQuery]_vars

\* the knowledge_source values of a list of hits
BatchSourcesOfHits(hits) == {hits[i].knowledge_source : i \in 1..Len(hits)}

\* C20: the list of cards a retrieval returns holds no two cards with the
\* same knowledge_source, and a card for every source one of the catalog,
\* source-biased and direct searches returned a hit for.
C20_NoDuplicateSources ==
    query.pc = "returned" =>
        LET cards == query.final_results IN
        /\ \A i, k \in 1..Len(cards) :
              i # k => cards[i].knowledge_source # cards[k].knowledge_source
        /\ {cards[i].knowledge_source : i \in 1..Len(cards)}
              = BatchSourcesOfHits(query.catalog_payloads)
                \cup BatchSourcesOfHits(query.source_based_knowledge)
                \cup BatchSourcesOfHits(query.direct_knowledge)

\* all three searches returned a hit for source s1, the direct search two
\* chunks of it
C20_Witness ==
    /\ query.pc = "returned"
    /\ \E i \in 1..Len(query.catalog_payloads) :
          query.catalog_payloads[i].knowledge_source = "s1"
    /\ \E i \in 1..Len(query.source_based_knowledge) :
          query.source_based_knowledge[i].knowledge_source = "s1"
    /\ Len(query.direct_knowledge) = 2
    /\ \A i \in 1..2 : query.direct_knowledge[i].knowledge_source = "s1"
    /\ query.direct_knowledge[1].text_index # query.direct_knowledge[2].text_index
    /\ Len(query.final_results) = 1

(***************************************************************************)
(* C21: the last message of the assembled list.                            *)
(***************************************************************************)
NextPrompt ==
    \/ \E message \in UserQueries, chat_history \in ChatHistories,
          outcome \in EnhancerOutcomes :
          EnhanceQuery(message, chat_history, outcome)
    \/ \E agent_data \in AgentConfigurations,
          knowledge_base_string \in KnowledgeBaseStrings :
          BuildMessages(agent_data, knowledge_base_string)

SpecPrompt == InitChat /\ [][NextPrompt]_vars

\* the last entry of the assembled list
LastMessage == prompt.messages[Len(prompt.messages)]

NextChunk ==
    \E text_content \in ChunkerTexts, chunk_size \in ChunkSizes,
       chunk_overlap \in ChunkOverlaps :
       ChunkText(text_content, chunk_size, chunk_overlap)

SpecChunk == InitChat /\ [][NextChunk]_vars

\* the overlap the loop works with (lines 53-55)
OverlapUsed ==
    IF chunker.chunk_overlap >= chunker.chunk_size THEN chunker.chunk_size \div 10
    ELSE chunker.chunk_overlap

\* C22: every chunk the chunker returns has length at most chunk_size, and
\* every chunk except the last has length greater than chunk_overlap.
C22_ChunkBounds ==
    chunker.pc = "returned" =>
        \A i \in 1..Len(chunker.chunks) :
            /\ Len(chunker.chunks[i]) <= chunker.chunk_size
            /\ i < Len(chunker.chunks) => Len(chunker.chunks[i]) > OverlapUsed

\* the part of C22 the chunker keeps: every chunk is a non-empty stripped
\* text of at most chunk_size characters
C22_ChunkAtMostSize ==
    chunker.pc = "returned" =>
        \A i \in 1..Len(chunker.chunks) :
            /\ Len(chunker.chunks[i]) \in 1..chunker.chunk_size
            /\ Strip(chunker.chunks[i]) = chunker.chunks[i]

(***************************************************************************)
(* C23: the quota of chat turns under concurrent requests.                 *)
(***************************************************************************)
InitQuota ==
    /\ EmptyStores /\ IndexIdle /\ ChatIdle /\ DeleteIdle /\ OthersIdle
    /\ activeType = "url"
    /\ \E k \in 0..MaxCredits :
          plan = [ai_queries |-> k, granted |-> k, served |-> 0,
                  request |-> [c \in ChatRequests |-> "idle"]]

NextQuota ==
    \/ \E c \in ChatRequests, plan_active \in BOOLEAN : CheckPermission(c, plan_active)
    \/ \E c \in ChatRequests, success \in BOOLEAN : ServeTurn(c, success)
    \/ \E c \in ChatRequests, ok \in BOOLEAN : DecrementTask(c, ok)

SpecQuota == InitQuota /\ [][NextQuota]_vars

\* C23: a user with k ai_queries credits is never served more than k chat
\* turns, whatever the interleaving of the concurrent requests.
C23_ServedWithinCredits == plan.served <= plan.granted

\* what the counter itself keeps: it never falls below zero and never
\* rises, and a request is denied whenever it is checked at zero
C23_CounterWithinBounds ==
    /\ plan.ai_queries \in 0..plan.granted
    /\ [][\A c \in ChatRequests :
            (plan.request[c] = "idle" /\ plan'.request[c] = "permitted")
                => plan.ai_queries > 0]_vars

(***************************************************************************)
(* C24, C25: the detached persistence step against rotation and against    *)
(* the next turn.                                                          *)
(***************************************************************************)
\* the turn whose task stored message m
TurnOf(m) == CHOOSE t \in Turns : m.message_id[3] = t

\* C24: both messages of a turn are stored under the conversation_id that
\* was current when the turn loaded its history, also when a rotation
\* completes between the start of the turn and the persistence step.
C24_StoredUnderTurnConversation ==
    \A m \in chatMessages :
        turn[TurnOf(m)].conversation_id # << >>
            => m.conversation_id = turn[TurnOf(m)].conversation_id

\* without a rotation and with one session document per session the
\* persistence step stores under the conversation the turn read
C24_StoredUnderTurnConversationNoRotation ==
    (/\ rotate.pc \notin {"update", "rotated"}
     /\ \A r1, r2 \in sessions :
           (r1.agent_id = r2.agent_id /\ r1.chat_session_id = r2.chat_session_id)
               => r1 = r2)
    => C24_StoredUnderTurnConversation

\* the message_ids of the history a turn loaded
HistoryIds(t) ==
    {turn[t].chat_history[i].message_id : i \in 1..Len(turn[t].chat_history)}

\* the turns that had delivered their reply when turn t started
DeliveredBefore(t) == {u \in turn[t].earlier : turn[u].result = "success"}

\* C25: a turn that starts after the reply of the previous turn of the same
\* session was delivered, with no rotation in between, finds both messages
\* of that previous turn in the history it loads.
C25_HistoryHoldsPreviousTurn ==
    \A t \in Turns :
        (turn[t].pc \in {"prepare", "handler", "stream", "returned"}
            /\ rotate.pc = "idle")
        => \A u \in DeliveredBefore(t) :
              {<<"uuid4", "user", u>>, <<"uuid4", "agent", u>>} \subseteq HistoryIds(t)

(***************************************************************************)
(* C26, C27: agent_status against the ingestion tasks of the agent.        *)
(***************************************************************************)
\* the tasks that are between their first status update and their return
Running == {j \in Jobs : job[j].pc \notin {"idle", "returned"}}

\* C26: when two ingestion tasks of an agent overlap, the task that
\* finishes first does not leave the agent marked active while the other
\* task is still indexing.
C26_NotActiveWhileOtherJobRuns ==
    [][\A j, k \in Jobs :
          (/\ j # k
           /\ j \in Running /\ job'[j].pc = "returned"
           /\ k \in Running /\ job'[k] = job[k]
           /\ job[k].agent_id = job[j].agent_id
           /\ agentStatus[job[j].agent_id] \in {"indexing", "updating"})
          => agentStatus'[job[j].agent_id] # "active"]_vars

\* the ingestion tasks, a request of which may carry an invalid base_url
NextIngestRejecting ==
    \/ NextIngest
    \/ \E j \in Jobs : BaseUrlRejected(j)

\* a background task that can take a step eventually takes one
SpecIngestFair ==
    InitChat /\ [][NextIngestRejecting]_vars /\ WF_vars(NextIngestRejecting)

\* C27: an agent that an ingestion task put into indexing or updating
\* eventually leaves that status, also when the task ends through its
\* exception handler.
C27_StatusEventuallyLeft ==
    \A a \in Agents :
        (agentStatus[a] \in {"indexing", "updating"})
            ~> (agentStatus[a] \notin {"indexing", "updating"})

(***************************************************************************)
(* C28: a failed embeddings call and the points indexed before.            *)
(***************************************************************************)
\* one indexing task at a time whose embeddings call, filter deletes and
\* upsert may each fail
NextIndexFailing ==
    \/ \E batch \in Batches : StartIndex(1, "a1", activeType, batch)
    \/ \E ok \in BOOLEAN : Embed(1, ok)
    \/ \E ok \in BOOLEAN : DeleteOld(1, ok)
    \/ \E ok \in BOOLEAN : UpsertAll(1, ok)
    \/ ReturnIndex(1)

SpecIndexFailing == InitIndex /\ [][NextIndexFailing]_vars

\* C28: a run whose embeddings call failed stores no new point, and does
\* not delete the points indexed before for the sources of its batch.
C28_PriorPointsKeptOnFailure ==
    [][\A r \in Runners :
          (/\ run[r].pc = "delete"
           /\ run'[r] # run[r]
           /\ run[r].all_points = << >>)
          => kb \subseteq kb']_vars

\* what the run does keep: a failed embeddings call leaves the points of
\* every source outside the batch of the run, and of every source of the
\* batch that produced no chunk
C28_OtherSourcesKeptOnFailure ==
    [][\A r \in Runners :
          (/\ run[r].pc = "delete"
           /\ run'[r] # run[r]
           /\ run[r].all_points = << >>)
          => \A p \in kb \ kb' :
                /\ p.agent_id = run[r].agent_id
                /\ \E i \in 1..Len(run[r].all_chunks) :
                      run[r].all_chunks[i].knowledge_source = p.knowledge_source]_vars

(***************************************************************************)
(* C29: delete-agent while an ingestion task of the agent is running.      *)
(***************************************************************************)
\* one ingestion task of agent a1, and a delete-agent request for a1 that
\* arrives while the task is running
NextDeleteIngest ==
    \/ \E operation \in {"build", "update"}, request \in IngestRequests,
          ok \in BOOLEAN : StartIngest(1, "a1", operation, request, ok)
    \/ \E ok \in BOOLEAN : UpdateMetadata(1, ok)
    \/ \E ok \in BOOLEAN : FetchLinks(1, ok)
    \/ \E ok \in BOOLEAN, fault \in IndexFaults : IndexLinks(1, ok, fault)
    \/ \E ok \in BOOLEAN : UrlRows(1, ok)
    \/ ExtractFiles(1)
    \/ \E fault \in IndexFaults : IndexFiles(1, fault)
    \/ \E ok \in BOOLEAN : FileRows(1, ok)
    \/ \E kind \in {"custom_texts", "qa_pairs"}, fault \in IndexFaults :
            IndexCustom(1, kind, fault)
    \/ \E kind \in {"custom_texts", "qa_pairs"}, ok \in BOOLEAN :
            CustomRows(1, kind, ok)
    \/ \E ok \in BOOLEAN : SetActive(1, ok)
    \/ (1 \in Running /\ remove_agent_by_id("a1"))
    \/ remove_agent_urls
    \/ RemoveKnowledgeBasePoints
    \/ RemoveWebCatalogPoints
    \/ remove_all_agent_files
    \/ remove_agent_custom_texts
    \/ remove_agent_qa_pairs

SpecDeleteIngest == InitChat /\ [][NextDeleteIngest]_vars

\* C29: when an agent was deleted while an ingestion task for it was
\* running and both have finished, no vector point and no knowledge-source
\* row of the agent exists.
C29_NothingLeftAfterDeleteAndIngest ==
    (del.pc = "returned" /\ job[1].pc = "returned") =>
        LET owned == OwnedBy(del.agent_id)
        IN  owned.knowledge_base = {} /\ owned.sources = {}

(***************************************************************************)
(* C30: the rows marked indexed against the chunks upserted.               *)
(***************************************************************************)
\* C30: a knowledge source whose chunks an ingestion run did not upsert is
\* not marked indexed by that run, even when other sources of the batch
\* were indexed.
C30_IndexedOnlyIfUpserted ==
    \A r \in sourceRows :
        (r.agent_id = "a1" /\ r.status = "indexed")
            => \E j \in Jobs :
                  /\ job[j].pc # "idle"
                  /\ \E ktype \in KnowledgeTypes :
                        /\ CollectionOfType[ktype] = r.collection
                        /\ <<ktype, r.knowledge_source>> \in job[j].upserted

\* when the indexer reports no error, a row marked indexed belongs to a
\* file of the batch that was handed to the indexer
C30_IndexedOnlyIfHandedOver ==
    \A r \in sourceRows :
        (r.agent_id = "a1" /\ r.status = "indexed")
            => \E j \in Jobs :
                  /\ job[j].pc # "idle"
                  /\ r.collection = "atlas_agent_files"
                  /\ r.knowledge_source \in BatchSources(job[j].files_data)

====
